---- MODULE Spec2Model ----
(***************************************************************************)
(* Write-ahead log and crash recovery of buzzdb::LogManager                *)
(* (src/src/log/log_manager.cc, declaration in src/unnamed/part_000).      *)
(*                                                                         *)
(* The log file is modelled at byte level: every record is the byte        *)
(* sequence the append functions write, and every scan (recovery,          *)
(* rollback_txn, printLog) decodes those bytes with the offset arithmetic   *)
(* of the source.  The buffer manager, the heap segment, the transaction    *)
(* manager and the file primitive are collaborators whose code is not       *)
(* part of the two source files; they are modelled from the specification.  *)
(***************************************************************************)
EXTENDS Integers, Sequences, FiniteSets, TLC

(***************************************************************************)
(* Bounds of the model.                                                    *)
(***************************************************************************)
MaxTxn == 2
MaxUpdates == 2
MaxAppends == 5
MaxCheckpoints == 2
MaxCrashes == 1
NumPages == 1
PageSize == 2

(***************************************************************************)
(* Program constants.                                                      *)
(***************************************************************************)
INVALID_RECORD_TYPE == 0
ABORT_RECORD == 1
COMMIT_RECORD == 2
UPDATE_RECORD == 3
BEGIN_RECORD == 4
CHECKPOINT_RECORD == 5
BEGIN_FUZZY_CHECKPOINT_RECORD == 6
END_FUZZY_CHECKPOINT_RECORD == 7
\* sizeof(unsigned char) and sizeof(uint64_t)
TagSize == 1
U64Size == 8

LogRecordType == ABORT_RECORD..END_FUZZY_CHECKPOINT_RECORD
TxnIds == 1..MaxTxn
Pages == 1..NumPages

VARIABLES
  log_file,                    \* bytes of the backing file (File)
  current_offset_,             \* LogManager::current_offset_
  txn_id_to_first_log_record,  \* std::map<uint64_t, uint64_t>
  log_record_type_to_count,    \* std::map<LogRecordType, uint64_t>
  fuzzy_checkpoint_page_ids,   \* std::vector<uint64_t>
  pages,                       \* page contents as seen through fix_page
  disk,                        \* page contents on durable storage
  dirty,                       \* ids of the dirty pages of the buffer pool
  next_txn_id,                 \* transaction manager: next id to allocate
  active_txns,                 \* transaction manager: started, not finished
  lastOp,                      \* history: <<name of the last operation, its txn>>
  n_appends,                   \* history: append operations performed
  n_updates,                   \* history: UPDATE records appended
  n_checkpoints,               \* history: checkpoint records appended
  crashes,                     \* history: crashes so far
  unflushed,                   \* history: offsets of UPDATE records whose page
                               \*   was not written to disk since the update
  torn_off                     \* history: offset of an interrupted append, or -1

wal == <<log_file, current_offset_, txn_id_to_first_log_record,
         log_record_type_to_count, fuzzy_checkpoint_page_ids>>
pool == <<pages, disk, dirty>>
txnmgr == <<next_txn_id, active_txns>>
history == <<lastOp, n_appends, n_updates, n_checkpoints, crashes, unflushed,
             torn_off>>
vars == <<wal, pool, txnmgr, history>>

(***************************************************************************)
(* File primitive (storage/test_file.h): resize, write_block, read_block.  *)
(***************************************************************************)
Zeros(n) == [i \in 1..n |-> 0]

\* resize grows with zero bytes or truncates
Resize(file, new_size) ==
  IF new_size >= Len(file)
    THEN file \o Zeros(new_size - Len(file))
    ELSE SubSeq(file, 1, new_size)

\* write_block inside the file; a write past the end writes the part that fits
WriteBlock(file, data, offset) ==
  IF offset + Len(data) <= Len(file)
    THEN SubSeq(file, 1, offset) \o data
         \o SubSeq(file, offset + Len(data) + 1, Len(file))
    ELSE [i \in 1..Len(file) |->
            IF i > offset /\ i <= offset + Len(data) THEN data[i - offset]
            ELSE file[i]]

ReadByte(file, offset) ==
  IF offset < Len(file) THEN file[offset + 1] ELSE 0

\* read_block inside the file; bytes past the end read as 0
ReadBlock(file, offset, length) ==
  IF offset + length <= Len(file)
    THEN SubSeq(file, offset + 1, offset + length)
    ELSE [i \in 1..length |-> ReadByte(file, offset + i - 1)]

\* a uint64_t as its bytes in host (little-endian) order, and back
RECURSIVE ShiftRight(_, _)
ShiftRight(v, n) == IF n = 0 THEN v ELSE ShiftRight(v \div 256, n - 1)

U64Bytes(v) == [i \in 1..U64Size |-> ShiftRight(v, i - 1) % 256]

RECURSIVE BytesValue(_, _)
BytesValue(bytes, i) ==
  IF i > Len(bytes) THEN 0
  ELSE LET high == BytesValue(bytes, i + 1)
       IN IF high = 0 THEN bytes[i] ELSE bytes[i] + 256 * high

ReadU64(file, offset) == BytesValue(ReadBlock(file, offset, U64Size), 1)

\* the writes of an append, in program order: each is <<data, offset>>
RECURSIVE ApplyWrites(_, _, _)
ApplyWrites(file, writes, n) ==
  IF n = 0 THEN file
  ELSE WriteBlock(ApplyWrites(file, writes, n - 1), writes[n][1], writes[n][2])

(***************************************************************************)
(* Log record codec: the writes each append function issues, tag last.     *)
(***************************************************************************)
TxnRecordSize == TagSize + U64Size

\* a variant of UpdateRecordSize that leaves room for one image only, against
\* which C32 is tried
UpdateRecordSizeOneImage(length) == TagSize + 4 * U64Size + length

UpdateRecordSize(length) == TagSize + 4 * U64Size + 2 * length

\* a variant of TxnRecordWrites with the tag written first, against which C9
\* is tried
TxnRecordWritesTagFirst(TYPE, txn_id, off) ==
  << << <<TYPE>>, off >>,
     <<U64Bytes(txn_id), off + TagSize>> >>

\* log_abort, log_commit, log_txn_begin: txn_id, then the tag
TxnRecordWrites(TYPE, txn_id, off) ==
  << <<U64Bytes(txn_id), off + TagSize>>,
     << <<TYPE>>, off >> >>

\* log_update: txn_id, page_id, length, offset, before_img, after_img, then the tag
UpdateRecordWrites(txn_id, page_id, length, offset, before_img, after_img, off) ==
  << <<U64Bytes(txn_id), off + TagSize>>,
     <<U64Bytes(page_id), off + TagSize + U64Size>>,
     <<U64Bytes(length), off + TagSize + 2 * U64Size>>,
     <<U64Bytes(offset), off + TagSize + 3 * U64Size>>,
     <<before_img, off + TagSize + 4 * U64Size>>,
     <<after_img, off + TagSize + 4 * U64Size + length>>,
     << <<UPDATE_RECORD>>, off >> >>

\* log_checkpoint, log_fuzzy_checkpoint_begin, log_fuzzy_checkpoint_end
TagRecordWrites(TYPE, off) == << << <<TYPE>>, off >> >>

\* resize to hold the record, then the first n writes of it
WriteRecord(file, off, size, writes, n) ==
  ApplyWrites(Resize(file, off + size), writes, n)

\* std::map::insert keeps an existing entry; erase removes the key if present
MapInsert(m, k, v) == IF k \in DOMAIN m THEN m ELSE m @@ (k :> v)
MapErase(m, k) == [x \in (DOMAIN m) \ {k} |-> m[x]]
EmptyMap == [x \in {} |-> 0]

ZeroCounts == [k \in LogRecordType |-> 0]

\* get_total_log_records
RECURSIVE SumCounts(_, _)
SumCounts(counts, k) ==
  IF k > END_FUZZY_CHECKPOINT_RECORD THEN 0
  ELSE counts[k] + SumCounts(counts, k + 1)

get_total_log_records(counts) == SumCounts(counts, ABORT_RECORD)

Incr(counts, k) == [counts EXCEPT ![k] = @ + 1]

(***************************************************************************)
(* Buffer manager (buffer/buffer_manager.h): fix_page, memcpy into the     *)
(* frame, unfix_page(frame, true).  A pool is [pages, dirty].               *)
(***************************************************************************)
WriteToPage(pool_, page_id, offset, data) ==
  IF page_id \notin DOMAIN pool_.pages THEN pool_
  ELSE [pages |-> [pool_.pages EXCEPT ![page_id] =
                     [i \in 1..Len(@) |->
                        IF i > offset /\ i <= offset + Len(data)
                          THEN data[i - offset] ELSE @[i]]],
        dirty |-> pool_.dirty \cup {page_id}]

(***************************************************************************)
(* class UpdateInfo and the UPDATE record decoder shared by the scans.     *)
(***************************************************************************)
UpdateInfo(file, off) ==
  LET length == ReadU64(file, off + TagSize + 2 * U64Size)
  IN [txn_id |-> ReadU64(file, off + TagSize),
      page_id |-> ReadU64(file, off + TagSize + U64Size),
      length |-> length,
      offset |-> ReadU64(file, off + TagSize + 3 * U64Size),
      before_img |-> ReadBlock(file, off + TagSize + 4 * U64Size, length),
      after_img |-> ReadBlock(file, off + TagSize + 4 * U64Size + length, length)]

(***************************************************************************)
(* LogManager::rollback_txn                                                *)
(***************************************************************************)
\* a variant of RollbackScan that ends at the ABORT record of any transaction,
\* against which C26 is tried
RECURSIVE RollbackScanToAnyAbort(_, _, _, _, _)
RollbackScanToAnyAbort(file, limit, txn_id, off, updates) ==
  IF off >= limit THEN updates
  ELSE
    LET type == ReadByte(file, off) IN
    IF type = INVALID_RECORD_TYPE THEN updates
    ELSE IF type \in {CHECKPOINT_RECORD, BEGIN_FUZZY_CHECKPOINT_RECORD,
                      END_FUZZY_CHECKPOINT_RECORD}
      THEN RollbackScanToAnyAbort(file, limit, txn_id, off + TagSize, updates)
    ELSE IF type \in {BEGIN_RECORD, COMMIT_RECORD}
      THEN RollbackScanToAnyAbort(file, limit, txn_id, off + TagSize + U64Size,
                                  updates)
    ELSE IF type = ABORT_RECORD
      THEN updates
    ELSE
      LET current_txn_id == ReadU64(file, off + TagSize)
          length == ReadU64(file, off + TagSize + 2 * U64Size)
      IN RollbackScanToAnyAbort(file, limit, txn_id,
                                off + TagSize + 4 * U64Size + 2 * length,
                                IF current_txn_id = txn_id
                                  THEN Append(updates, UpdateInfo(file, off))
                                  ELSE updates)

\* a variant of RollbackScan that keeps the UPDATE records of every
\* transaction, against which C4 is tried
RECURSIVE RollbackScanAnyTxn(_, _, _, _, _)
RollbackScanAnyTxn(file, limit, txn_id, off, updates) ==
  IF off >= limit THEN updates
  ELSE
    LET type == ReadByte(file, off) IN
    IF type = INVALID_RECORD_TYPE THEN updates
    ELSE IF type \in {CHECKPOINT_RECORD, BEGIN_FUZZY_CHECKPOINT_RECORD,
                      END_FUZZY_CHECKPOINT_RECORD}
      THEN RollbackScanAnyTxn(file, limit, txn_id, off + TagSize, updates)
    ELSE IF type \in {BEGIN_RECORD, COMMIT_RECORD}
      THEN RollbackScanAnyTxn(file, limit, txn_id, off + TagSize + U64Size, updates)
    ELSE IF type = ABORT_RECORD
      THEN IF ReadU64(file, off + TagSize) = txn_id
             THEN updates
             ELSE RollbackScanAnyTxn(file, limit, txn_id,
                                     off + TagSize + U64Size, updates)
    ELSE
      LET length == ReadU64(file, off + TagSize + 2 * U64Size)
      IN RollbackScanAnyTxn(file, limit, txn_id,
                            off + TagSize + 4 * U64Size + 2 * length,
                            Append(updates, UpdateInfo(file, off)))

\* the scan loop: the UPDATE records of txn_id, in log order
RECURSIVE RollbackScan(_, _, _, _, _)
RollbackScan(file, limit, txn_id, off, updates) ==
  IF off >= limit THEN updates
  ELSE
    LET type == ReadByte(file, off) IN
    IF type = INVALID_RECORD_TYPE THEN updates
    ELSE IF type \in {CHECKPOINT_RECORD, BEGIN_FUZZY_CHECKPOINT_RECORD,
                      END_FUZZY_CHECKPOINT_RECORD}
      THEN RollbackScan(file, limit, txn_id, off + TagSize, updates)
    ELSE IF type \in {BEGIN_RECORD, COMMIT_RECORD}
      THEN RollbackScan(file, limit, txn_id, off + TagSize + U64Size, updates)
    ELSE IF type = ABORT_RECORD
      THEN IF ReadU64(file, off + TagSize) = txn_id
             THEN updates
             ELSE RollbackScan(file, limit, txn_id, off + TagSize + U64Size, updates)
    ELSE
      LET current_txn_id == ReadU64(file, off + TagSize)
          length == ReadU64(file, off + TagSize + 2 * U64Size)
      IN RollbackScan(file, limit, txn_id,
                      off + TagSize + 4 * U64Size + 2 * length,
                      IF current_txn_id = txn_id
                        THEN Append(updates, UpdateInfo(file, off))
                        ELSE updates)

\* a variant of ApplyBeforeImages that applies the before-images first record
\* first, against which C3 is tried
RECURSIVE ApplyBeforeImagesInLogOrder(_, _, _)
ApplyBeforeImagesInLogOrder(pool_, updates, i) ==
  IF i = 0 THEN pool_
  ELSE LET earlier == ApplyBeforeImagesInLogOrder(pool_, updates, i - 1)
       IN WriteToPage(earlier, updates[i].page_id, updates[i].offset,
                      updates[i].before_img)

\* a variant of ApplyBeforeImages that undoes an update by the difference of
\* its images (what the byte holds, less the after-image, plus the
\* before-image), against which C35 is tried
RECURSIVE ApplyBeforeImagesAsDelta(_, _, _)
ApplyBeforeImagesAsDelta(pool_, updates, i) ==
  IF i = 0 THEN pool_
  ELSE LET u == updates[i]
           held == IF u.page_id \in DOMAIN pool_.pages
                     THEN SubSeq(pool_.pages[u.page_id], u.offset + 1,
                                 u.offset + u.length)
                     ELSE u.after_img
           delta == [k \in 1..u.length |->
                       (held[k] - u.after_img[k] + u.before_img[k]) % 256]
       IN ApplyBeforeImagesAsDelta(
            WriteToPage(pool_, u.page_id, u.offset, delta), updates, i - 1)

\* the loop over updates.rbegin()..rend(): before-images, last record first
RECURSIVE ApplyBeforeImages(_, _, _)
ApplyBeforeImages(pool_, updates, i) ==
  IF i = 0 THEN pool_
  ELSE ApplyBeforeImages(
         WriteToPage(pool_, updates[i].page_id, updates[i].offset,
                     updates[i].before_img),
         updates, i - 1)

\* a variant of rollback_txn without the lookup in the map, against which C11
\* is tried
rollback_txn_unchecked(txn_id, map, file, limit, pool_) ==
  LET updates == RollbackScan(file, limit, txn_id, 0, <<>>)
  IN ApplyBeforeImages(pool_, updates, Len(updates))

rollback_txn(txn_id, map, file, limit, pool_) ==
  IF txn_id \notin DOMAIN map THEN pool_
  ELSE LET updates == RollbackScan(file, limit, txn_id, 0, <<>>)
       IN ApplyBeforeImages(pool_, updates, Len(updates))

(***************************************************************************)
(* LogManager::recovery                                                    *)
(***************************************************************************)
\* a variant of RecoveryScan in which a CHECKPOINT record keeps the UPDATEs
\* pending from a fuzzy checkpoint, against which C28 is tried
RECURSIVE RecoveryScanKeepingPendingAtCheckpoint(_, _, _, _)
RecoveryScanKeepingPendingAtCheckpoint(file, limit, off, st) ==
  IF off >= limit THEN st
  ELSE
    LET type == ReadByte(file, off) IN
    IF type = INVALID_RECORD_TYPE THEN st
    ELSE IF type = CHECKPOINT_RECORD
      THEN RecoveryScanKeepingPendingAtCheckpoint(file, limit, off + TagSize,
             [st EXCEPT !.counts = Incr(@, CHECKPOINT_RECORD),
                        !.updatesSinceLastCheckpoint = <<>>])
    ELSE IF type = BEGIN_FUZZY_CHECKPOINT_RECORD
      THEN RecoveryScanKeepingPendingAtCheckpoint(file, limit, off + TagSize,
             [st EXCEPT !.counts = Incr(@, BEGIN_FUZZY_CHECKPOINT_RECORD),
                        !.updatesPending = st.updatesSinceLastCheckpoint,
                        !.updatesSinceLastCheckpoint = <<>>])
    ELSE IF type = END_FUZZY_CHECKPOINT_RECORD
      THEN RecoveryScanKeepingPendingAtCheckpoint(file, limit, off + TagSize,
             [st EXCEPT !.counts = Incr(@, END_FUZZY_CHECKPOINT_RECORD),
                        !.updatesPending = <<>>])
    ELSE IF type = BEGIN_RECORD
      THEN RecoveryScanKeepingPendingAtCheckpoint(file, limit, off + TagSize + U64Size,
             [st EXCEPT !.map = MapInsert(@, ReadU64(file, off + TagSize),
                                          get_total_log_records(st.counts)),
                        !.counts = Incr(@, BEGIN_RECORD)])
    ELSE IF type = COMMIT_RECORD
      THEN RecoveryScanKeepingPendingAtCheckpoint(file, limit, off + TagSize + U64Size,
             [st EXCEPT !.map = MapErase(@, ReadU64(file, off + TagSize)),
                        !.counts = Incr(@, COMMIT_RECORD)])
    ELSE IF type = ABORT_RECORD
      THEN RecoveryScanKeepingPendingAtCheckpoint(file, limit, off + TagSize + U64Size,
             [st EXCEPT !.aborted_txns = @ \cup {ReadU64(file, off + TagSize)},
                        !.counts = Incr(@, ABORT_RECORD)])
    ELSE
      LET update == UpdateInfo(file, off)
      IN RecoveryScanKeepingPendingAtCheckpoint(file, limit,
                      off + TagSize + 4 * U64Size + 2 * update.length,
                      [st EXCEPT !.updatesSinceLastCheckpoint = Append(@, update),
                                 !.counts = Incr(@, UPDATE_RECORD)])

\* a variant of RecoveryScan in which an END_FUZZY record keeps the UPDATEs
\* pending from its BEGIN_FUZZY, against which C29 is tried
RECURSIVE RecoveryScanKeepingPendingAtFuzzyEnd(_, _, _, _)
RecoveryScanKeepingPendingAtFuzzyEnd(file, limit, off, st) ==
  IF off >= limit THEN st
  ELSE
    LET type == ReadByte(file, off) IN
    IF type = INVALID_RECORD_TYPE THEN st
    ELSE IF type = CHECKPOINT_RECORD
      THEN RecoveryScanKeepingPendingAtFuzzyEnd(file, limit, off + TagSize,
             [st EXCEPT !.counts = Incr(@, CHECKPOINT_RECORD),
                        !.updatesPending = <<>>,
                        !.updatesSinceLastCheckpoint = <<>>])
    ELSE IF type = BEGIN_FUZZY_CHECKPOINT_RECORD
      THEN RecoveryScanKeepingPendingAtFuzzyEnd(file, limit, off + TagSize,
             [st EXCEPT !.counts = Incr(@, BEGIN_FUZZY_CHECKPOINT_RECORD),
                        !.updatesPending = st.updatesSinceLastCheckpoint,
                        !.updatesSinceLastCheckpoint = <<>>])
    ELSE IF type = END_FUZZY_CHECKPOINT_RECORD
      THEN RecoveryScanKeepingPendingAtFuzzyEnd(file, limit, off + TagSize,
             [st EXCEPT !.counts = Incr(@, END_FUZZY_CHECKPOINT_RECORD)])
    ELSE IF type = BEGIN_RECORD
      THEN RecoveryScanKeepingPendingAtFuzzyEnd(file, limit, off + TagSize + U64Size,
             [st EXCEPT !.map = MapInsert(@, ReadU64(file, off + TagSize),
                                          get_total_log_records(st.counts)),
                        !.counts = Incr(@, BEGIN_RECORD)])
    ELSE IF type = COMMIT_RECORD
      THEN RecoveryScanKeepingPendingAtFuzzyEnd(file, limit, off + TagSize + U64Size,
             [st EXCEPT !.map = MapErase(@, ReadU64(file, off + TagSize)),
                        !.counts = Incr(@, COMMIT_RECORD)])
    ELSE IF type = ABORT_RECORD
      THEN RecoveryScanKeepingPendingAtFuzzyEnd(file, limit, off + TagSize + U64Size,
             [st EXCEPT !.aborted_txns = @ \cup {ReadU64(file, off + TagSize)},
                        !.counts = Incr(@, ABORT_RECORD)])
    ELSE
      LET update == UpdateInfo(file, off)
      IN RecoveryScanKeepingPendingAtFuzzyEnd(file, limit,
                      off + TagSize + 4 * U64Size + 2 * update.length,
                      [st EXCEPT !.updatesSinceLastCheckpoint = Append(@, update),
                                 !.counts = Incr(@, UPDATE_RECORD)])

\* a variant of RecoveryScan that registers the transaction of a COMMIT record
\* it has seen no BEGIN for, against which C33 is tried
RECURSIVE RecoveryScanRegisteringUnknownCommit(_, _, _, _)
RecoveryScanRegisteringUnknownCommit(file, limit, off, st) ==
  IF off >= limit THEN st
  ELSE
    LET type == ReadByte(file, off) IN
    IF type = INVALID_RECORD_TYPE THEN st
    ELSE IF type = CHECKPOINT_RECORD
      THEN RecoveryScanRegisteringUnknownCommit(file, limit, off + TagSize,
             [st EXCEPT !.counts = Incr(@, CHECKPOINT_RECORD),
                        !.updatesPending = <<>>,
                        !.updatesSinceLastCheckpoint = <<>>])
    ELSE IF type = BEGIN_FUZZY_CHECKPOINT_RECORD
      THEN RecoveryScanRegisteringUnknownCommit(file, limit, off + TagSize,
             [st EXCEPT !.counts = Incr(@, BEGIN_FUZZY_CHECKPOINT_RECORD),
                        !.updatesPending = st.updatesSinceLastCheckpoint,
                        !.updatesSinceLastCheckpoint = <<>>])
    ELSE IF type = END_FUZZY_CHECKPOINT_RECORD
      THEN RecoveryScanRegisteringUnknownCommit(file, limit, off + TagSize,
             [st EXCEPT !.counts = Incr(@, END_FUZZY_CHECKPOINT_RECORD),
                        !.updatesPending = <<>>])
    ELSE IF type = BEGIN_RECORD
      THEN RecoveryScanRegisteringUnknownCommit(file, limit, off + TagSize + U64Size,
             [st EXCEPT !.map = MapInsert(@, ReadU64(file, off + TagSize),
                                          get_total_log_records(st.counts)),
                        !.counts = Incr(@, BEGIN_RECORD)])
    ELSE IF type = COMMIT_RECORD
      THEN RecoveryScanRegisteringUnknownCommit(file, limit, off + TagSize + U64Size,
             [st EXCEPT !.map = IF ReadU64(file, off + TagSize) \in DOMAIN @
                                  THEN MapErase(@, ReadU64(file, off + TagSize))
                                  ELSE MapInsert(@, ReadU64(file, off + TagSize),
                                                 get_total_log_records(st.counts)),
                        !.counts = Incr(@, COMMIT_RECORD)])
    ELSE IF type = ABORT_RECORD
      THEN RecoveryScanRegisteringUnknownCommit(file, limit, off + TagSize + U64Size,
             [st EXCEPT !.aborted_txns = @ \cup {ReadU64(file, off + TagSize)},
                        !.counts = Incr(@, ABORT_RECORD)])
    ELSE
      LET update == UpdateInfo(file, off)
      IN RecoveryScanRegisteringUnknownCommit(file, limit,
                      off + TagSize + 4 * U64Size + 2 * update.length,
                      [st EXCEPT !.updatesSinceLastCheckpoint = Append(@, update),
                                 !.counts = Incr(@, UPDATE_RECORD)])

\* the forward scan; st is [counts, map, aborted_txns, updatesPending,
\* updatesSinceLastCheckpoint]
RECURSIVE RecoveryScan(_, _, _, _)
RecoveryScan(file, limit, off, st) ==
  IF off >= limit THEN st
  ELSE
    LET type == ReadByte(file, off) IN
    IF type = INVALID_RECORD_TYPE THEN st
    ELSE IF type = CHECKPOINT_RECORD
      THEN RecoveryScan(file, limit, off + TagSize,
             [st EXCEPT !.counts = Incr(@, CHECKPOINT_RECORD),
                        !.updatesPending = <<>>,
                        !.updatesSinceLastCheckpoint = <<>>])
    ELSE IF type = BEGIN_FUZZY_CHECKPOINT_RECORD
      THEN RecoveryScan(file, limit, off + TagSize,
             [st EXCEPT !.counts = Incr(@, BEGIN_FUZZY_CHECKPOINT_RECORD),
                        !.updatesPending = st.updatesSinceLastCheckpoint,
                        !.updatesSinceLastCheckpoint = <<>>])
    ELSE IF type = END_FUZZY_CHECKPOINT_RECORD
      THEN RecoveryScan(file, limit, off + TagSize,
             [st EXCEPT !.counts = Incr(@, END_FUZZY_CHECKPOINT_RECORD),
                        !.updatesPending = <<>>])
    ELSE IF type = BEGIN_RECORD
      THEN RecoveryScan(file, limit, off + TagSize + U64Size,
             [st EXCEPT !.map = MapInsert(@, ReadU64(file, off + TagSize),
                                          get_total_log_records(st.counts)),
                        !.counts = Incr(@, BEGIN_RECORD)])
    ELSE IF type = COMMIT_RECORD
      THEN RecoveryScan(file, limit, off + TagSize + U64Size,
             [st EXCEPT !.map = MapErase(@, ReadU64(file, off + TagSize)),
                        !.counts = Incr(@, COMMIT_RECORD)])
    ELSE IF type = ABORT_RECORD
      THEN RecoveryScan(file, limit, off + TagSize + U64Size,
             [st EXCEPT !.aborted_txns = @ \cup {ReadU64(file, off + TagSize)},
                        !.counts = Incr(@, ABORT_RECORD)])
    ELSE
      LET update == UpdateInfo(file, off)
      IN RecoveryScan(file, limit,
                      off + TagSize + 4 * U64Size + 2 * update.length,
                      [st EXCEPT !.updatesSinceLastCheckpoint = Append(@, update),
                                 !.counts = Incr(@, UPDATE_RECORD)])

\* the merge after the scan: the updates the redo loop goes over
FinalUpdates(st) ==
  IF st.updatesPending # <<>>
    THEN st.updatesPending \o st.updatesSinceLastCheckpoint
    ELSE st.updatesSinceLastCheckpoint

\* a variant of RedoAborted that re-applies the after-image of every UPDATE in
\* the set, against which C27 is tried
RECURSIVE RedoEveryUpdate(_, _, _, _)
RedoEveryUpdate(pool_, updates, aborted_txns, i) ==
  IF i > Len(updates) THEN pool_
  ELSE RedoEveryUpdate(
         WriteToPage(pool_, updates[i].page_id, updates[i].offset,
                     updates[i].after_img),
         updates, aborted_txns, i + 1)

\* the redo loop: after-images of the updates of aborted transactions
RECURSIVE RedoAborted(_, _, _, _)
RedoAborted(pool_, updates, aborted_txns, i) ==
  IF i > Len(updates) THEN pool_
  ELSE RedoAborted(
         IF updates[i].txn_id \in aborted_txns
           THEN WriteToPage(pool_, updates[i].page_id, updates[i].offset,
                            updates[i].after_img)
           ELSE pool_,
         updates, aborted_txns, i + 1)

\* a loop calling rollback_txn for the members of txns in ascending order
RECURSIVE RollbackAll(_, _, _, _, _)
RollbackAll(txns, map, file, limit, pool_) ==
  IF txns = {} THEN pool_
  ELSE LET t == CHOOSE x \in txns : \A y \in txns : x <= y
       IN RollbackAll(txns \ {t}, map, file, limit,
                      rollback_txn(t, map, file, limit, pool_))

\* a variant of recovery without the rollback of the transactions that have an
\* ABORT record, against which C21 is tried
recovery_without_rollback_of_aborted(file, map, pool_) ==
  LET limit == Len(file)
      st == RecoveryScan(file, limit, 0,
              [counts |-> ZeroCounts, map |-> map, aborted_txns |-> {},
               updatesPending |-> <<>>, updatesSinceLastCheckpoint |-> <<>>])
      updates == FinalUpdates(st)
      redone == RedoAborted(pool_, updates, st.aborted_txns, 1)
      final == RollbackAll((DOMAIN st.map) \ st.aborted_txns, st.map, file,
                           limit, redone)
  IN [counts |-> st.counts, map |-> st.map, limit |-> limit, pool |-> final]

\* the whole of recovery: [counts, map, limit, pool]
recovery(file, map, pool_) ==
  LET limit == Len(file)
      st == RecoveryScan(file, limit, 0,
              [counts |-> ZeroCounts, map |-> map, aborted_txns |-> {},
               updatesPending |-> <<>>, updatesSinceLastCheckpoint |-> <<>>])
      updates == FinalUpdates(st)
      redone == RedoAborted(pool_, updates, st.aborted_txns, 1)
      undone == RollbackAll(st.aborted_txns, st.map, file, limit, redone)
      final == RollbackAll((DOMAIN st.map) \ st.aborted_txns, st.map, file,
                           limit, undone)
  IN [counts |-> st.counts, map |-> st.map, limit |-> limit, pool |-> final]

(***************************************************************************)
(* printLog: the records of the file, in order, up to a zero tag.          *)
(***************************************************************************)
RECURSIVE printLog(_, _)
printLog(file, off) ==
  IF off >= Len(file) THEN <<>>
  ELSE
    LET type == ReadByte(file, off) IN
    IF type = INVALID_RECORD_TYPE THEN <<>>
    ELSE IF type \in {CHECKPOINT_RECORD, BEGIN_FUZZY_CHECKPOINT_RECORD,
                      END_FUZZY_CHECKPOINT_RECORD}
      THEN <<[type |-> type, at |-> off]>> \o printLog(file, off + TagSize)
    ELSE IF type \in {BEGIN_RECORD, COMMIT_RECORD, ABORT_RECORD}
      THEN <<[type |-> type, at |-> off, txn_id |-> ReadU64(file, off + TagSize)]>>
           \o printLog(file, off + TagSize + U64Size)
    ELSE
      LET length == ReadU64(file, off + TagSize + 2 * U64Size)
      IN <<[type |-> UPDATE_RECORD, at |-> off,
            txn_id |-> ReadU64(file, off + TagSize),
            page_id |-> ReadU64(file, off + TagSize + U64Size),
            length |-> length,
            offset |-> ReadU64(file, off + TagSize + 3 * U64Size)]>>
         \o printLog(file, off + TagSize + 4 * U64Size + 2 * length)

(***************************************************************************)
(* The append operations of LogManager, as steps on the WAL state.  Those  *)
(* that take the buffer manager also say what happens to the pool.          *)
(***************************************************************************)
Pool == [pages |-> pages, dirty |-> dirty]

\* a variant of log_txn_begin that reads the total after the BEGIN record is
\* counted, against which C16 is tried
log_txn_begin_counted_first(txn_id) ==
  /\ log_file' = WriteRecord(log_file, current_offset_, TxnRecordSize,
                   TxnRecordWrites(BEGIN_RECORD, txn_id, current_offset_), 2)
  /\ current_offset_' = current_offset_ + TxnRecordSize
  /\ log_record_type_to_count' = Incr(log_record_type_to_count, BEGIN_RECORD)
  /\ txn_id_to_first_log_record' =
       MapInsert(txn_id_to_first_log_record, txn_id,
                 get_total_log_records(log_record_type_to_count'))
  /\ UNCHANGED fuzzy_checkpoint_page_ids

log_txn_begin(txn_id) ==
  /\ log_file' = WriteRecord(log_file, current_offset_, TxnRecordSize,
                   TxnRecordWrites(BEGIN_RECORD, txn_id, current_offset_), 2)
  /\ current_offset_' = current_offset_ + TxnRecordSize
  /\ log_record_type_to_count' = Incr(log_record_type_to_count, BEGIN_RECORD)
  /\ txn_id_to_first_log_record' =
       MapInsert(txn_id_to_first_log_record, txn_id,
                 get_total_log_records(log_record_type_to_count))
  /\ UNCHANGED fuzzy_checkpoint_page_ids

\* a variant of log_commit that leaves the COMMIT count alone, against which
\* C7 is tried
log_commit_uncounted(txn_id) ==
  /\ log_file' = WriteRecord(log_file, current_offset_, TxnRecordSize,
                   TxnRecordWrites(COMMIT_RECORD, txn_id, current_offset_), 2)
  /\ current_offset_' = current_offset_ + TxnRecordSize
  /\ txn_id_to_first_log_record' = MapErase(txn_id_to_first_log_record, txn_id)
  /\ UNCHANGED <<log_record_type_to_count, fuzzy_checkpoint_page_ids>>

log_commit(txn_id) ==
  /\ log_file' = WriteRecord(log_file, current_offset_, TxnRecordSize,
                   TxnRecordWrites(COMMIT_RECORD, txn_id, current_offset_), 2)
  /\ current_offset_' = current_offset_ + TxnRecordSize
  /\ log_record_type_to_count' = Incr(log_record_type_to_count, COMMIT_RECORD)
  /\ txn_id_to_first_log_record' = MapErase(txn_id_to_first_log_record, txn_id)
  /\ UNCHANGED fuzzy_checkpoint_page_ids

\* a variant of log_abort that erases the map entry before the rollback,
\* against which C20 is tried
log_abort_erasing_first(txn_id) ==
  LET file == WriteRecord(log_file, current_offset_, TxnRecordSize,
                TxnRecordWrites(ABORT_RECORD, txn_id, current_offset_), 2)
      limit == current_offset_ + TxnRecordSize
      after == rollback_txn(txn_id, MapErase(txn_id_to_first_log_record, txn_id),
                            file, limit, Pool)
  IN /\ log_file' = file
     /\ current_offset_' = limit
     /\ log_record_type_to_count' = Incr(log_record_type_to_count, ABORT_RECORD)
     /\ pages' = after.pages
     /\ dirty' = after.dirty
     /\ disk' = disk
     /\ txn_id_to_first_log_record' = MapErase(txn_id_to_first_log_record, txn_id)
     /\ UNCHANGED fuzzy_checkpoint_page_ids

log_abort(txn_id) ==
  LET file == WriteRecord(log_file, current_offset_, TxnRecordSize,
                TxnRecordWrites(ABORT_RECORD, txn_id, current_offset_), 2)
      limit == current_offset_ + TxnRecordSize
      after == rollback_txn(txn_id, txn_id_to_first_log_record, file, limit, Pool)
  IN /\ log_file' = file
     /\ current_offset_' = limit
     /\ log_record_type_to_count' = Incr(log_record_type_to_count, ABORT_RECORD)
     /\ pages' = after.pages
     /\ dirty' = after.dirty
     /\ disk' = disk
     /\ txn_id_to_first_log_record' = MapErase(txn_id_to_first_log_record, txn_id)
     /\ UNCHANGED fuzzy_checkpoint_page_ids

log_update(txn_id, page_id, length, offset, before_img, after_img) ==
  /\ log_file' = WriteRecord(log_file, current_offset_, UpdateRecordSize(length),
                   UpdateRecordWrites(txn_id, page_id, length, offset,
                                      before_img, after_img, current_offset_), 7)
  /\ current_offset_' = current_offset_ + UpdateRecordSize(length)
  /\ log_record_type_to_count' = Incr(log_record_type_to_count, UPDATE_RECORD)
  /\ UNCHANGED <<txn_id_to_first_log_record, fuzzy_checkpoint_page_ids>>

\* buffer_manager.flush_all_pages() first, then the tag
log_checkpoint ==
  /\ disk' = pages
  /\ dirty' = {}
  /\ pages' = pages
  /\ log_file' = WriteRecord(log_file, current_offset_, TagSize,
                   TagRecordWrites(CHECKPOINT_RECORD, current_offset_), 1)
  /\ current_offset_' = current_offset_ + TagSize
  /\ log_record_type_to_count' = Incr(log_record_type_to_count, CHECKPOINT_RECORD)
  /\ UNCHANGED <<txn_id_to_first_log_record, fuzzy_checkpoint_page_ids>>

\* buffer_manager.get_dirty_page_ids(): the dirty page ids, ascending
RECURSIVE get_dirty_page_ids(_)
get_dirty_page_ids(ids) ==
  IF ids = {} THEN <<>>
  ELSE LET p == CHOOSE x \in ids : \A y \in ids : x <= y
       IN <<p>> \o get_dirty_page_ids(ids \ {p})

\* a variant of log_fuzzy_checkpoint_begin that takes no snapshot of the dirty
\* pages, against which C13 is tried
log_fuzzy_checkpoint_begin_no_snapshot ==
  /\ log_file' = WriteRecord(log_file, current_offset_, TagSize,
                   TagRecordWrites(BEGIN_FUZZY_CHECKPOINT_RECORD, current_offset_), 1)
  /\ current_offset_' = current_offset_ + TagSize
  /\ log_record_type_to_count' =
       Incr(log_record_type_to_count, BEGIN_FUZZY_CHECKPOINT_RECORD)
  /\ UNCHANGED <<txn_id_to_first_log_record, fuzzy_checkpoint_page_ids>>

\* the value log_fuzzy_checkpoint_begin returns
log_fuzzy_checkpoint_begin_return == Len(fuzzy_checkpoint_page_ids')

log_fuzzy_checkpoint_begin ==
  /\ fuzzy_checkpoint_page_ids' = get_dirty_page_ids(dirty)
  /\ log_file' = WriteRecord(log_file, current_offset_, TagSize,
                   TagRecordWrites(BEGIN_FUZZY_CHECKPOINT_RECORD, current_offset_), 1)
  /\ current_offset_' = current_offset_ + TagSize
  /\ log_record_type_to_count' =
       Incr(log_record_type_to_count, BEGIN_FUZZY_CHECKPOINT_RECORD)
  /\ UNCHANGED txn_id_to_first_log_record

\* buffer_manager.flush_page(page_id): writes the page if it is dirty
flush_page(page_id) ==
  /\ disk' = IF page_id \in dirty THEN [disk EXCEPT ![page_id] = pages[page_id]]
             ELSE disk
  /\ dirty' = dirty \ {page_id}
  /\ pages' = pages

\* a variant of log_fuzzy_checkpoint_do_step without the range check (an index
\* past the end is clamped to the last entry), against which C14 is tried
log_fuzzy_checkpoint_do_step_clamped(step) ==
  /\ IF fuzzy_checkpoint_page_ids = <<>>
       THEN UNCHANGED pool
       ELSE flush_page(fuzzy_checkpoint_page_ids[
              IF step >= Len(fuzzy_checkpoint_page_ids)
                THEN Len(fuzzy_checkpoint_page_ids) ELSE step + 1])
  /\ UNCHANGED wal

log_fuzzy_checkpoint_do_step(step) ==
  /\ IF step >= Len(fuzzy_checkpoint_page_ids)
       THEN UNCHANGED pool
       ELSE flush_page(fuzzy_checkpoint_page_ids[step + 1])
  /\ UNCHANGED wal

\* a variant of log_fuzzy_checkpoint_end that keeps the stored list, against
\* which C18 is tried
log_fuzzy_checkpoint_end_keeping_list ==
  /\ log_file' = WriteRecord(log_file, current_offset_, TagSize,
                   TagRecordWrites(END_FUZZY_CHECKPOINT_RECORD, current_offset_), 1)
  /\ current_offset_' = current_offset_ + TagSize
  /\ log_record_type_to_count' =
       Incr(log_record_type_to_count, END_FUZZY_CHECKPOINT_RECORD)
  /\ UNCHANGED <<txn_id_to_first_log_record, fuzzy_checkpoint_page_ids>>

log_fuzzy_checkpoint_end ==
  /\ log_file' = WriteRecord(log_file, current_offset_, TagSize,
                   TagRecordWrites(END_FUZZY_CHECKPOINT_RECORD, current_offset_), 1)
  /\ current_offset_' = current_offset_ + TagSize
  /\ log_record_type_to_count' =
       Incr(log_record_type_to_count, END_FUZZY_CHECKPOINT_RECORD)
  /\ fuzzy_checkpoint_page_ids' = <<>>
  /\ UNCHANGED txn_id_to_first_log_record

\* a variant of reset that empties the file it is pointed at, against which C17
\* is tried
reset_emptying(new_log_file) ==
  /\ log_file' = <<>>
  /\ current_offset_' = 0
  /\ txn_id_to_first_log_record' = EmptyMap
  /\ log_record_type_to_count' = ZeroCounts
  /\ fuzzy_checkpoint_page_ids' = <<>>

\* LogManager::reset
reset(new_log_file) ==
  /\ log_file' = new_log_file
  /\ current_offset_' = 0
  /\ txn_id_to_first_log_record' = EmptyMap
  /\ log_record_type_to_count' = ZeroCounts
  /\ fuzzy_checkpoint_page_ids' = <<>>

(***************************************************************************)
(* Initial state: a LogManager constructed on an empty log file, a cold    *)
(* buffer pool over zeroed pages, no transaction started.                   *)
(***************************************************************************)
Init ==
  /\ log_file = <<>>
  /\ current_offset_ = 0
  /\ txn_id_to_first_log_record = EmptyMap
  /\ log_record_type_to_count = ZeroCounts
  /\ fuzzy_checkpoint_page_ids = <<>>
  /\ pages = [p \in Pages |-> Zeros(PageSize)]
  /\ disk = [p \in Pages |-> Zeros(PageSize)]
  /\ dirty = {}
  /\ next_txn_id = 1
  /\ active_txns = {}
  /\ lastOp = <<"init", 0>>
  /\ n_appends = 0
  /\ n_updates = 0
  /\ n_checkpoints = 0
  /\ crashes = 0
  /\ unflushed = {}
  /\ torn_off = -1

\* after reset the next WAL operation is recovery (the crash helper of the tests)
Running == lastOp[1] # "crash"
CanAppend == Running /\ n_appends < MaxAppends

Appended(op, txn_id) ==
  /\ lastOp' = <<op, txn_id>>
  /\ n_appends' = n_appends + 1
  /\ torn_off' = -1
  /\ UNCHANGED crashes

NotAppended(op, txn_id) ==
  /\ lastOp' = <<op, txn_id>>
  /\ UNCHANGED <<n_appends, n_updates, n_checkpoints, crashes, torn_off>>

\* the UPDATE records whose page is written to disk by a flush of page_ids
Flushed(page_ids) == {u \in unflushed : u[2] \in page_ids}

(***************************************************************************)
(* Operations.                                                             *)
(***************************************************************************)
\* TransactionManager::start_txn: a fresh id, then log_txn_begin
StartTxn ==
  /\ CanAppend
  /\ next_txn_id <= MaxTxn
  /\ log_txn_begin(next_txn_id)
  /\ active_txns' = active_txns \cup {next_txn_id}
  /\ next_txn_id' = next_txn_id + 1
  /\ Appended("run", 0)
  /\ UNCHANGED <<pool, n_updates, n_checkpoints, unflushed>>

\* HeapSegment::write: the bytes go to the page, the images to log_update
HeapWrite(txn_id, page_id, offset, length) ==
  /\ CanAppend
  /\ n_updates < MaxUpdates
  /\ txn_id \in active_txns
  /\ LET before_img == SubSeq(pages[page_id], offset + 1, offset + length)
         after_img == [i \in 1..length |-> n_updates + 1]
         written == WriteToPage(Pool, page_id, offset, after_img)
     IN /\ log_update(txn_id, page_id, length, offset, before_img, after_img)
        /\ pages' = written.pages
        /\ dirty' = written.dirty
        /\ disk' = disk
  /\ n_updates' = n_updates + 1
  /\ unflushed' = unflushed \cup {<<current_offset_, page_id>>}
  /\ Appended("run", 0)
  /\ UNCHANGED <<txnmgr, n_checkpoints>>

\* TransactionManager::commit_txn
CommitTxn(txn_id) ==
  /\ CanAppend
  /\ txn_id \in active_txns
  /\ log_commit(txn_id)
  /\ active_txns' = active_txns \ {txn_id}
  /\ Appended("run", 0)
  /\ UNCHANGED <<pool, next_txn_id, n_updates, n_checkpoints, unflushed>>

\* TransactionManager::abort_txn
AbortTxn(txn_id) ==
  /\ CanAppend
  /\ txn_id \in active_txns
  /\ log_abort(txn_id)
  /\ active_txns' = active_txns \ {txn_id}
  /\ Appended("abort", txn_id)
  /\ UNCHANGED <<next_txn_id, n_updates, n_checkpoints, unflushed>>

Checkpoint ==
  /\ CanAppend
  /\ n_checkpoints < MaxCheckpoints
  /\ log_checkpoint
  /\ unflushed' = unflushed \ Flushed(dirty)
  /\ n_checkpoints' = n_checkpoints + 1
  /\ Appended("run", 0)
  /\ UNCHANGED <<txnmgr, n_updates>>

FuzzyBegin ==
  /\ CanAppend
  /\ n_checkpoints < MaxCheckpoints
  /\ log_fuzzy_checkpoint_begin
  /\ n_checkpoints' = n_checkpoints + 1
  /\ Appended("run", 0)
  /\ UNCHANGED <<pool, txnmgr, n_updates, unflushed>>

FuzzyStep(step) ==
  /\ Running
  /\ log_fuzzy_checkpoint_do_step(step)
  /\ unflushed' =
       IF step >= Len(fuzzy_checkpoint_page_ids) THEN unflushed
       ELSE unflushed \ Flushed({fuzzy_checkpoint_page_ids[step + 1]} \cap dirty)
  /\ NotAppended("fuzzy_step", step)
  /\ UNCHANGED txnmgr

FuzzyEnd ==
  /\ CanAppend
  /\ n_checkpoints < MaxCheckpoints
  /\ log_fuzzy_checkpoint_end
  /\ n_checkpoints' = n_checkpoints + 1
  /\ Appended("run", 0)
  /\ UNCHANGED <<pool, txnmgr, n_updates, unflushed>>

\* buffer_manager.flush_page called outside the WAL (also: eviction of a dirty page)
FlushPage(page_id) ==
  /\ Running
  /\ page_id \in dirty
  /\ flush_page(page_id)
  /\ unflushed' = unflushed \ Flushed({page_id})
  /\ NotAppended("run", 0)
  /\ UNCHANGED <<wal, txnmgr>>

\* buffer_manager.flush_all_pages called outside the WAL
FlushAll ==
  /\ Running
  /\ dirty # {}
  /\ disk' = pages
  /\ dirty' = {}
  /\ pages' = pages
  /\ unflushed' = unflushed \ Flushed(dirty)
  /\ NotAppended("run", 0)
  /\ UNCHANGED <<wal, txnmgr>>

\* a variant of Rollback that counts an ABORT record at each call, against
\* which C10 is tried
RollbackCounting(txn_id) ==
  /\ Running
  /\ LET after == rollback_txn(txn_id, txn_id_to_first_log_record, log_file,
                               current_offset_, Pool)
     IN /\ pages' = after.pages
        /\ dirty' = after.dirty
        /\ disk' = disk
  /\ log_record_type_to_count' = Incr(log_record_type_to_count, ABORT_RECORD)
  /\ NotAppended(IF lastOp \in {<<"rollback", txn_id>>, <<"rollback_again", txn_id>>}
                   THEN "rollback_again" ELSE "rollback", txn_id)
  /\ UNCHANGED <<log_file, current_offset_, txn_id_to_first_log_record,
                  fuzzy_checkpoint_page_ids, txnmgr, unflushed>>

\* a variant of Rollback that erases the transaction from
\* txn_id_to_first_log_record, against which C34 is tried
RollbackErasing(txn_id) ==
  /\ Running
  /\ LET after == rollback_txn(txn_id, txn_id_to_first_log_record, log_file,
                               current_offset_, Pool)
     IN /\ pages' = after.pages
        /\ dirty' = after.dirty
        /\ disk' = disk
  /\ txn_id_to_first_log_record' = MapErase(txn_id_to_first_log_record, txn_id)
  /\ NotAppended(IF lastOp \in {<<"rollback", txn_id>>, <<"rollback_again", txn_id>>}
                   THEN "rollback_again" ELSE "rollback", txn_id)
  /\ UNCHANGED <<log_file, current_offset_, log_record_type_to_count,
                  fuzzy_checkpoint_page_ids, txnmgr, unflushed>>

\* LogManager::rollback_txn called through the public surface
Rollback(txn_id) ==
  /\ Running
  /\ LET after == rollback_txn(txn_id, txn_id_to_first_log_record, log_file,
                               current_offset_, Pool)
     IN /\ pages' = after.pages
        /\ dirty' = after.dirty
        /\ disk' = disk
  /\ NotAppended(IF lastOp \in {<<"rollback", txn_id>>, <<"rollback_again", txn_id>>}
                   THEN "rollback_again" ELSE "rollback", txn_id)
  /\ UNCHANGED <<wal, txnmgr, unflushed>>

\* crash of the tests, up to recovery: discard_all_pages, LogManager::reset,
\* TransactionManager::reset
Crash ==
  /\ Running
  /\ crashes < MaxCrashes
  /\ pages' = disk
  /\ dirty' = {}
  /\ disk' = disk
  /\ reset(log_file)
  /\ active_txns' = {}
  /\ lastOp' = <<"crash", 0>>
  /\ crashes' = crashes + 1
  /\ UNCHANGED <<next_txn_id, n_appends, n_updates, n_checkpoints, unflushed,
                  torn_off>>

Recovery ==
  /\ lastOp[1] = "crash"
  /\ LET r == recovery(log_file, txn_id_to_first_log_record, Pool)
     IN /\ log_record_type_to_count' = r.counts
        /\ current_offset_' = r.limit
        /\ txn_id_to_first_log_record' = r.map
        /\ pages' = r.pool.pages
        /\ dirty' = r.pool.dirty
        /\ disk' = disk
  /\ NotAppended("recovery", 0)
  /\ UNCHANGED <<log_file, fuzzy_checkpoint_page_ids, txnmgr, unflushed>>

Ranges == {r \in (0..(PageSize - 1)) \X (1..PageSize) : r[1] + r[2] <= PageSize}

(***************************************************************************)
(* A crash in the middle of an append: the file was resized and the first  *)
(* n writes of the record were done, the tag (the last write) was not.      *)
(* What comes before the append in the function (the flush of              *)
(* log_checkpoint) happened; what comes after it did not.                   *)
(***************************************************************************)
InterruptibleAppends ==
  {[size |-> TxnRecordSize, flush |-> FALSE,
    writes |-> TxnRecordWrites(BEGIN_RECORD, t, current_offset_)] :
      t \in {x \in {next_txn_id} : x <= MaxTxn}}
  \cup
  {[size |-> TxnRecordSize, flush |-> FALSE,
    writes |-> TxnRecordWrites(type, t, current_offset_)] :
      t \in active_txns, type \in {COMMIT_RECORD, ABORT_RECORD}}
  \cup
  {[size |-> UpdateRecordSize(r[2]), flush |-> FALSE,
    writes |-> UpdateRecordWrites(t, p, r[2], r[1],
                 SubSeq(pages[p], r[1] + 1, r[1] + r[2]),
                 [i \in 1..r[2] |-> n_updates + 1], current_offset_)] :
      t \in active_txns, p \in Pages,
      r \in {x \in Ranges : n_updates < MaxUpdates}}
  \cup
  {[size |-> TagSize, flush |-> (type = CHECKPOINT_RECORD),
    writes |-> TagRecordWrites(type, current_offset_)] :
      type \in {x \in {CHECKPOINT_RECORD, BEGIN_FUZZY_CHECKPOINT_RECORD,
                       END_FUZZY_CHECKPOINT_RECORD} :
                  n_checkpoints < MaxCheckpoints}}

TornCrash ==
  /\ CanAppend
  /\ crashes < MaxCrashes
  /\ \E a \in InterruptibleAppends :
       \E n \in 0..(Len(a.writes) - 1) :
          /\ reset(WriteRecord(log_file, current_offset_, a.size, a.writes, n))
          /\ disk' = IF a.flush THEN pages ELSE disk
          /\ pages' = disk'
          /\ unflushed' = IF a.flush THEN unflushed \ Flushed(dirty)
                          ELSE unflushed
  /\ dirty' = {}
  /\ active_txns' = {}
  /\ lastOp' = <<"crash", 0>>
  /\ crashes' = crashes + 1
  /\ n_appends' = n_appends + 1
  /\ torn_off' = current_offset_
  /\ UNCHANGED <<next_txn_id, n_updates, n_checkpoints>>

\* the operations of a running system
Operate ==
  \/ StartTxn
  \/ \E t \in TxnIds, p \in Pages, r \in Ranges : HeapWrite(t, p, r[1], r[2])
  \/ \E t \in TxnIds : CommitTxn(t)
  \/ \E t \in TxnIds : AbortTxn(t)
  \/ Checkpoint
  \/ FuzzyBegin
  \/ \E step \in 0..NumPages : FuzzyStep(step)
  \/ FuzzyEnd
  \/ \E p \in Pages : FlushPage(p)
  \/ FlushAll

\* histories of transactions, flushes and checkpoints, with crash and recovery
Next ==
  \/ Operate
  \/ Crash
  \/ Recovery

Spec == Init /\ [][Next]_vars

\* transactions, page flushes and sharp checkpoints, with rollback_txn called
\* through the public surface; CHECKPOINT stands for the three tag-only kinds,
\* which the scan of rollback_txn skips alike
NextRollback ==
  \/ StartTxn
  \/ \E t \in TxnIds, p \in Pages, r \in Ranges : HeapWrite(t, p, r[1], r[2])
  \/ \E t \in TxnIds : CommitTxn(t)
  \/ \E t \in TxnIds : AbortTxn(t)
  \/ Checkpoint
  \/ \E p \in Pages : FlushPage(p)
  \/ \E t \in TxnIds : Rollback(t)

SpecRollback == Init /\ [][NextRollback]_vars

\* the histories of Spec, and crashes that interrupt an append
NextTorn ==
  \/ Next
  \/ TornCrash

SpecTorn == Init /\ [][NextTorn]_vars

(***************************************************************************)
(* A damaged log: the crash helper of the tests, with the log file read     *)
(* back holding a tag byte that is none of the defined kinds in the place    *)
(* of the tag of one UPDATE record (the payload of the record is intact, so  *)
(* that every read of the scans stays inside the file).                      *)
(***************************************************************************)
UnknownTag == END_FUZZY_CHECKPOINT_RECORD + 1

UpdateRecordOffsets ==
  LET recs == printLog(log_file, 0)
  IN {recs[i].at : i \in {j \in DOMAIN recs : recs[j].type = UPDATE_RECORD}}

CorruptCrash ==
  /\ Running
  /\ crashes < MaxCrashes
  /\ \E at \in UpdateRecordOffsets :
       reset(WriteBlock(log_file, <<UnknownTag>>, at))
  /\ pages' = disk
  /\ dirty' = {}
  /\ disk' = disk
  /\ active_txns' = {}
  /\ lastOp' = <<"crash", 0>>
  /\ crashes' = crashes + 1
  /\ UNCHANGED <<next_txn_id, n_appends, n_updates, n_checkpoints, unflushed,
                  torn_off>>

NextUnknownTag ==
  \/ Operate
  \/ CorruptCrash
  \/ Recovery

SpecUnknownTag == Init /\ [][NextUnknownTag]_vars

(***************************************************************************)
(* reset without recovery: the public surface of LogManager lets a caller   *)
(* append as soon as reset returned, with current_offset_ at 0 and the file  *)
(* still holding the records written before.                                 *)
(***************************************************************************)
BeginAfterReset ==
  /\ lastOp[1] = "crash"
  /\ n_appends < MaxAppends
  /\ next_txn_id <= MaxTxn
  /\ log_txn_begin(next_txn_id)
  /\ active_txns' = active_txns \cup {next_txn_id}
  /\ next_txn_id' = next_txn_id + 1
  /\ Appended("run", 0)
  /\ UNCHANGED <<pool, n_updates, n_checkpoints, unflushed>>

NextReset ==
  \/ Next
  \/ BeginAfterReset

SpecReset == Init /\ [][NextReset]_vars

(***************************************************************************)
(* A crash inside log_abort: the ABORT record is in the file and counted,   *)
(* the rollback has not run (or its writes never left the buffer pool), and  *)
(* the crash helper of the tests follows.                                    *)
(***************************************************************************)
AbortCrash(txn_id) ==
  /\ CanAppend
  /\ crashes < MaxCrashes
  /\ txn_id \in active_txns
  /\ reset(WriteRecord(log_file, current_offset_, TxnRecordSize,
                       TxnRecordWrites(ABORT_RECORD, txn_id, current_offset_), 2))
  /\ pages' = disk
  /\ dirty' = {}
  /\ disk' = disk
  /\ active_txns' = {}
  /\ lastOp' = <<"crash", 0>>
  /\ n_appends' = n_appends + 1
  /\ crashes' = crashes + 1
  /\ torn_off' = -1
  /\ UNCHANGED <<next_txn_id, n_updates, n_checkpoints, unflushed>>

NextAbortCrash ==
  \/ Next
  \/ \E t \in TxnIds : AbortCrash(t)

SpecAbortCrash == Init /\ [][NextAbortCrash]_vars

(***************************************************************************)
(* A transaction id used again after a crash: log_txn_begin takes the id    *)
(* from its caller, and the transaction manager that was reset by the crash  *)
(* helper hands out an id the log already holds.                             *)
(***************************************************************************)
StartTxnReusingId(txn_id) ==
  /\ CanAppend
  /\ crashes > 0
  /\ txn_id < next_txn_id
  /\ txn_id \notin active_txns
  /\ log_txn_begin(txn_id)
  /\ active_txns' = active_txns \cup {txn_id}
  /\ Appended("run", 0)
  /\ UNCHANGED <<pool, next_txn_id, n_updates, n_checkpoints, unflushed>>

NextReusedId ==
  \/ StartTxn
  \/ \E t \in TxnIds, p \in Pages, r \in Ranges : HeapWrite(t, p, r[1], r[2])
  \/ \E t \in TxnIds : CommitTxn(t)
  \/ \E t \in TxnIds : AbortTxn(t)
  \/ \E p \in Pages : FlushPage(p)
  \/ \E t \in TxnIds : Rollback(t)
  \/ Crash
  \/ Recovery
  \/ \E t \in TxnIds : StartTxnReusingId(t)

SpecReusedId == Init /\ [][NextReusedId]_vars

(***************************************************************************)
(* LogManager::log_commit called for a transaction id that was never       *)
(* begun: the function checks nothing, the COMMIT record is appended.       *)
(***************************************************************************)
CommitUnknownTxn(txn_id) ==
  /\ CanAppend
  /\ txn_id >= next_txn_id
  /\ log_commit(txn_id)
  /\ Appended("run", 0)
  /\ UNCHANGED <<pool, txnmgr, n_updates, n_checkpoints, unflushed>>

NextUnknownCommit ==
  \/ Next
  \/ \E t \in TxnIds : CommitUnknownTxn(t)

SpecUnknownCommit == Init /\ [][NextUnknownCommit]_vars

\* transactions, page flushes, the begin of a fuzzy checkpoint, crash and
\* recovery, with rollback_txn called through the public surface
NextWithRollback ==
  \/ StartTxn
  \/ \E t \in TxnIds, p \in Pages, r \in Ranges : HeapWrite(t, p, r[1], r[2])
  \/ \E t \in TxnIds : CommitTxn(t)
  \/ \E t \in TxnIds : AbortTxn(t)
  \/ FuzzyBegin
  \/ \E p \in Pages : FlushPage(p)
  \/ \E t \in TxnIds : Rollback(t)
  \/ Crash
  \/ Recovery

SpecWithRollback == Init /\ [][NextWithRollback]_vars

(***************************************************************************)
(* reset and recovery run a second time right after recovery, on the same  *)
(* log file, with discard_all_pages in between (the crash helper) or        *)
(* without it.                                                              *)
(***************************************************************************)
CrashAgain(discard) ==
  /\ lastOp[1] = "recovery"
  /\ crashes = MaxCrashes
  /\ pages' = IF discard THEN disk ELSE pages
  /\ dirty' = IF discard THEN {} ELSE dirty
  /\ disk' = disk
  /\ reset(log_file)
  /\ active_txns' = {}
  /\ lastOp' = <<"crash", IF discard THEN 1 ELSE 2>>
  /\ crashes' = crashes + 1
  /\ UNCHANGED <<next_txn_id, n_appends, n_updates, n_checkpoints, unflushed,
                  torn_off>>

NextCrashAgain ==
  \/ Next
  \/ \E discard \in BOOLEAN : CrashAgain(discard)

SpecCrashAgain == Init /\ [][NextCrashAgain]_vars

(***************************************************************************)
(* What the log holds, for the statements below.  recs is the decoded log. *)
(***************************************************************************)
Records == printLog(log_file, 0)

HasRecord(recs, type, t) ==
  \E i \in DOMAIN recs : recs[i].type = type /\ recs[i].txn_id = t
Committed(recs, t) == HasRecord(recs, COMMIT_RECORD, t)
UpdatesOf(recs, t) ==
  {i \in DOMAIN recs : recs[i].type = UPDATE_RECORD /\ recs[i].txn_id = t}

\* the UPDATE records that write byte b (1..PageSize) of page p
Covering(recs, p, b) ==
  {i \in DOMAIN recs :
     /\ recs[i].type = UPDATE_RECORD
     /\ recs[i].page_id = p
     /\ recs[i].offset < b
     /\ b <= recs[i].offset + recs[i].length}
CoveringOf(recs, t, p, b) == {i \in Covering(recs, p, b) : recs[i].txn_id = t}

AfterByte(rec, b) == UpdateInfo(log_file, rec.at).after_img[b - rec.offset]
BeforeByte(rec, b) == UpdateInfo(log_file, rec.at).before_img[b - rec.offset]

First(S) == CHOOSE x \in S : \A y \in S : x <= y
Last(S) == CHOOSE x \in S : \A y \in S : x >= y

Bytes == Pages \X (1..PageSize)

\* transaction u has a COMMIT or ABORT record after record i and before record j
FinishedBetween(recs, u, i, j) ==
  \E k \in DOMAIN recs :
    /\ i < k /\ k < j
    /\ recs[k].type \in {COMMIT_RECORD, ABORT_RECORD}
    /\ recs[k].txn_id = u

\* every byte a committed transaction wrote, after every other writer of the
\* byte had committed or aborted, holds the after-image of that transaction's
\* last UPDATE of it
CommittedVisible ==
  LET recs == Records IN
  \A pb \in Bytes : \A t \in TxnIds :
    LET c == Covering(recs, pb[1], pb[2])
        ct == {i \in c : recs[i].txn_id = t} IN
    (/\ Committed(recs, t)
     /\ ct # {}
     /\ \A i \in c \ ct : FinishedBetween(recs, recs[i].txn_id, i, First(ct)))
    => pages[pb[1]][pb[2]] = AfterByte(recs[Last(ct)], pb[2])

\* every byte that only transactions without a COMMIT record wrote holds the
\* before-image of the first UPDATE of it
UncommittedUndone ==
  LET recs == Records IN
  \A pb \in Bytes :
    LET c == Covering(recs, pb[1], pb[2]) IN
    (c # {} /\ \A i \in c : ~Committed(recs, recs[i].txn_id))
    => pages[pb[1]][pb[2]] = BeforeByte(recs[First(c)], pb[2])

Recovered == lastOp[1] = "recovery"

(***************************************************************************)
(* C1: after a crash and recovery every UPDATE of a transaction that has a *)
(* COMMIT record is visible on its page: the bytes hold its after-image.    *)
(* Stated for the bytes it wrote after every other writer had finished.     *)
(***************************************************************************)
C1_CommittedUpdatesVisible == Recovered => CommittedVisible

(***************************************************************************)
(* C2: after a crash and recovery no UPDATE of a transaction that has an   *)
(* ABORT record, or neither COMMIT nor ABORT, is visible: the bytes it      *)
(* wrote hold the value they had before the earliest UPDATE of them.        *)
(* Stated for the bytes no committed transaction wrote.                     *)
(***************************************************************************)
C2_UncommittedUpdatesUndone == Recovered => UncommittedUndone

(***************************************************************************)
(* C3: rollback of a live transaction t leaves every byte that an UPDATE of *)
(* t wrote with the before-image of t's earliest UPDATE of that byte, also  *)
(* when t's UPDATEs overlap and when the pages were flushed before.          *)
(***************************************************************************)
RolledBack(t) == lastOp \in {<<"rollback", t>>, <<"rollback_again", t>>}
Live(t) == t \in DOMAIN txn_id_to_first_log_record

C3_RollbackRestoresEarliestBeforeImage ==
  \A t \in TxnIds :
    (RolledBack(t) /\ Live(t)) =>
      LET recs == Records IN
      \A pb \in Bytes :
        LET ct == CoveringOf(recs, t, pb[1], pb[2]) IN
        ct # {} => pages[pb[1]][pb[2]] = BeforeByte(recs[First(ct)], pb[2])

\* reached: t is live and was rolled back, two of its UPDATEs wrote the same
\* byte, and the disk holds the after-image of the later one
C3_Witness ==
  \E t \in TxnIds : \E pb \in Bytes :
    LET recs == Records
        ct == CoveringOf(recs, t, pb[1], pb[2]) IN
    /\ lastOp = <<"rollback", t>>
    /\ Live(t)
    /\ Cardinality(ct) >= 2
    /\ disk[pb[1]][pb[2]] = AfterByte(recs[Last(ct)], pb[2])
    /\ pages[pb[1]][pb[2]] # disk[pb[1]][pb[2]]

(***************************************************************************)
(* C4: abort or rollback of t changes no page byte outside the byte ranges  *)
(* of t's UPDATE records, so the updates of a committed transaction whose    *)
(* records are interleaved with t's are still on the pages.                  *)
(***************************************************************************)
UndoneBy(t) ==
  lastOp' \in {<<"abort", t>>, <<"rollback", t>>, <<"rollback_again", t>>}

C4_RollbackLeavesOtherBytes ==
  [][\A t \in TxnIds :
       UndoneBy(t) =>
         LET recs == Records IN
         \A pb \in Bytes :
           CoveringOf(recs, t, pb[1], pb[2]) = {}
           => pages'[pb[1]][pb[2]] = pages[pb[1]][pb[2]]]_vars

\* reached: t was rolled back after writing a byte, and a byte t did not write
\* holds the after-image of a committed transaction whose UPDATE comes after
\* t's BEGIN
C4_Witness ==
  LET recs == Records IN
  \E t \in TxnIds : \E u \in TxnIds \ {t} : \E pb \in Bytes :
    LET cu == CoveringOf(recs, u, pb[1], pb[2]) IN
    /\ lastOp[1] \in {"abort", "rollback"} /\ lastOp[2] = t
    /\ UpdatesOf(recs, t) # {}
    /\ Committed(recs, u)
    /\ CoveringOf(recs, t, pb[1], pb[2]) = {}
    /\ cu # {}
    /\ \E i \in DOMAIN recs :
         /\ recs[i].type = BEGIN_RECORD
         /\ recs[i].txn_id = t
         /\ i < First(cu)
    /\ pages[pb[1]][pb[2]] = AfterByte(recs[Last(cu)], pb[2])
    /\ pages[pb[1]][pb[2]] # 0

(***************************************************************************)
(* C5: when the crash falls after fuzzy_begin and before fuzzy_end, the    *)
(* pages after recovery hold every committed UPDATE and no UPDATE of a      *)
(* transaction that did not commit, as if no checkpoint had been started.   *)
(***************************************************************************)
HasType(recs, type) == \E i \in DOMAIN recs : recs[i].type = type
OpenFuzzyCheckpoint(recs) ==
  \E i \in DOMAIN recs :
    /\ recs[i].type = BEGIN_FUZZY_CHECKPOINT_RECORD
    /\ \A j \in DOMAIN recs :
         j > i => recs[j].type # END_FUZZY_CHECKPOINT_RECORD

C5_InterruptedFuzzyCheckpointConsistent ==
  (Recovered /\ OpenFuzzyCheckpoint(Records))
  => (CommittedVisible /\ UncommittedUndone)

(***************************************************************************)
(* C6: undo is not bounded by a checkpoint.  With a CHECKPOINT or a         *)
(* BEGIN_FUZZY..END_FUZZY pair in the log, recovery restores the             *)
(* before-images of every UPDATE of every transaction that did not commit,  *)
(* the ones before the checkpoint included, and the transactions that        *)
(* committed before or after the checkpoint stay visible.                    *)
(***************************************************************************)
CompletedCheckpoint(recs) ==
  \/ HasType(recs, CHECKPOINT_RECORD)
  \/ \E i, j \in DOMAIN recs :
       /\ i < j
       /\ recs[i].type = BEGIN_FUZZY_CHECKPOINT_RECORD
       /\ recs[j].type = END_FUZZY_CHECKPOINT_RECORD

C6_UndoNotBoundedByCheckpoint ==
  (Recovered /\ CompletedCheckpoint(Records))
  => (UncommittedUndone /\ CommittedVisible)

(***************************************************************************)
(* C7: at every point the count of each record kind equals the number of   *)
(* records of that kind in the part of the log this instance knows (decoded *)
(* by the last recovery plus appended after it, or appended since the last   *)
(* reset), and the total is the sum over the kinds; each append raises its   *)
(* own kind's count by one and nothing else raises a count.                  *)
(***************************************************************************)
KnownRecords == printLog(SubSeq(log_file, 1, current_offset_), 0)
NumberOfType(recs, type) ==
  Cardinality({i \in DOMAIN recs : recs[i].type = type})

CountsMatchLog ==
  LET recs == KnownRecords IN
  /\ \A type \in LogRecordType :
       log_record_type_to_count[type] = NumberOfType(recs, type)
  /\ get_total_log_records(log_record_type_to_count) = Len(recs)

AppendCountsOwnKind ==
  (lastOp'[1] \notin {"crash", "recovery"}) =>
    IF n_appends' = n_appends + 1
    THEN log_record_type_to_count' =
           Incr(log_record_type_to_count, ReadByte(log_file', current_offset_))
    ELSE log_record_type_to_count' = log_record_type_to_count

C7_CountsMatchLog == []CountsMatchLog /\ [][AppendCountsOwnKind]_vars

\* reached: a recovery has decoded a log with three kinds of record and a
\* record was appended after it
C7_Witness ==
  /\ crashes > 0
  /\ lastOp[1] = "run"
  /\ n_appends >= 4
  /\ Cardinality({type \in LogRecordType : log_record_type_to_count[type] > 0}) >= 3
  /\ Len(KnownRecords) = n_appends

(***************************************************************************)
(* C8: every UPDATE record that precedes a CHECKPOINT record in the log is  *)
(* on durable storage: the page image on disk has received it.               *)
(***************************************************************************)
C8_UpdatesBeforeCheckpointDurable ==
  LET recs == Records IN
  \A i \in DOMAIN recs :
    recs[i].type = CHECKPOINT_RECORD
    => \A u \in unflushed : u[1] > recs[i].at

(***************************************************************************)
(* C9: a crash in the middle of an append, before the tag write, leaves the *)
(* partial record invisible: recovery and a later rollback scan see exactly *)
(* the records that were complete before that append.                        *)
(***************************************************************************)
ScanOf(file) ==
  RecoveryScan(file, Len(file), 0,
    [counts |-> ZeroCounts, map |-> EmptyMap, aborted_txns |-> {},
     updatesPending |-> <<>>, updatesSinceLastCheckpoint |-> <<>>])

C9_TornAppendInvisible ==
  (Recovered /\ torn_off >= 0) =>
    LET complete == SubSeq(log_file, 1, torn_off)
        seen == ScanOf(complete) IN
    /\ log_record_type_to_count = seen.counts
    /\ txn_id_to_first_log_record = seen.map
    /\ pages = recovery(complete, EmptyMap, [pages |-> disk, dirty |-> {}]).pool.pages
    /\ \A t \in TxnIds :
         RollbackScan(log_file, current_offset_, t, 0, <<>>)
           = RollbackScan(complete, torn_off, t, 0, <<>>)

\* reached: recovery ran on a log that ends in a partial record whose payload
\* was written, after complete records of a transaction with an UPDATE
C9_Witness ==
  /\ Recovered
  /\ torn_off > 0
  /\ Len(log_file) > torn_off + 1
  /\ \E i \in (torn_off + 2)..Len(log_file) : log_file[i] # 0
  /\ log_file[torn_off + 1] = INVALID_RECORD_TYPE
  /\ HasType(Records, UPDATE_RECORD)

(***************************************************************************)
(* C10: rollback(t) is idempotent: applied again with no append in between, *)
(* it leaves the page contents and the WAL state as the first one did.       *)
(***************************************************************************)
C10_RollbackIdempotent ==
  [][\A t \in TxnIds :
       lastOp' = <<"rollback_again", t>> =>
         /\ pages' = pages
         /\ dirty' = dirty
         /\ disk' = disk
         /\ UNCHANGED wal]_vars

\* reached: a live transaction was rolled back twice in a row, and the
\* rollback changed a byte that the disk still holds as the transaction wrote it
C10_Witness ==
  \E t \in TxnIds : \E pb \in Bytes :
    /\ lastOp = <<"rollback_again", t>>
    /\ Live(t)
    /\ CoveringOf(Records, t, pb[1], pb[2]) # {}
    /\ pages[pb[1]][pb[2]] # disk[pb[1]][pb[2]]

(***************************************************************************)
(* C11: rollback(t) for a t that is not in txn_id_to_first_log_record       *)
(* (never begun, committed or aborted) changes no page and no WAL state,     *)
(* also when the log holds UPDATE records of t.                              *)
(***************************************************************************)
C11_RollbackOfUnknownTxnIsNoOp ==
  [][\A t \in TxnIds :
       (/\ lastOp' \in {<<"rollback", t>>, <<"rollback_again", t>>}
        /\ ~Live(t))
       => /\ pages' = pages
          /\ dirty' = dirty
          /\ disk' = disk
          /\ UNCHANGED wal]_vars

\* reached: rollback was called for a committed transaction whose UPDATE is in
\* the log and on the page, and for one that never began
C11_Witness ==
  \E t \in TxnIds : \E pb \in Bytes :
    LET recs == Records
        ct == CoveringOf(recs, t, pb[1], pb[2]) IN
    /\ lastOp = <<"rollback", t>>
    /\ ~Live(t)
    /\ Committed(recs, t)
    /\ ct # {}
    /\ pages[pb[1]][pb[2]] = AfterByte(recs[Last(ct)], pb[2])
    /\ pages[pb[1]][pb[2]] # BeforeByte(recs[First(ct)], pb[2])

(***************************************************************************)
(* C12: a recovery or rollback scan that meets a tag byte that is none of   *)
(* the seven kinds, and not 0, stops there: what recovery rebuilds and what  *)
(* a rollback scan collects come from the records before that tag only.      *)
(***************************************************************************)
\* the offset of the first record whose tag is none of 0..7, or -1
RECURSIVE FirstUnknownTag(_, _)
FirstUnknownTag(file, off) ==
  IF off >= Len(file) THEN -1
  ELSE
    LET type == ReadByte(file, off) IN
    IF type = INVALID_RECORD_TYPE THEN -1
    ELSE IF type \in {CHECKPOINT_RECORD, BEGIN_FUZZY_CHECKPOINT_RECORD,
                      END_FUZZY_CHECKPOINT_RECORD}
      THEN FirstUnknownTag(file, off + TagSize)
    ELSE IF type \in {BEGIN_RECORD, COMMIT_RECORD, ABORT_RECORD}
      THEN FirstUnknownTag(file, off + TxnRecordSize)
    ELSE IF type = UPDATE_RECORD
      THEN FirstUnknownTag(file,
             off + UpdateRecordSize(ReadU64(file, off + TagSize + 2 * U64Size)))
    ELSE off

C12_UnknownTagEndsScan ==
  LET bad == FirstUnknownTag(log_file, 0) IN
  (Recovered /\ bad >= 0) =>
    LET before == SubSeq(log_file, 1, bad)
        seen == ScanOf(before) IN
    /\ log_record_type_to_count = seen.counts
    /\ txn_id_to_first_log_record = seen.map
    /\ pages = recovery(before, EmptyMap, [pages |-> disk, dirty |-> {}]).pool.pages
    /\ \A t \in TxnIds :
         RollbackScan(log_file, current_offset_, t, 0, <<>>)
           = RollbackScan(before, bad, t, 0, <<>>)

(***************************************************************************)
(* C13: fuzzy_begin stores the list of the page ids that are dirty at the  *)
(* call, appends one BEGIN_FUZZY record and returns the length of the list; *)
(* pages dirtied afterwards do not change the stored list.                   *)
(***************************************************************************)
AppendsType(type) ==
  /\ n_appends' = n_appends + 1
  /\ lastOp'[1] # "crash"
  /\ ReadByte(log_file', current_offset_) = type

FuzzyBeginStoresDirtyList ==
  AppendsType(BEGIN_FUZZY_CHECKPOINT_RECORD) =>
    LET ids == fuzzy_checkpoint_page_ids' IN
    /\ {ids[i] : i \in DOMAIN ids} = dirty
    /\ Len(ids) = Cardinality(dirty)
    /\ log_fuzzy_checkpoint_begin_return = Cardinality(dirty)
    /\ log_file' = SubSeq(log_file, 1, current_offset_)
                     \o <<BEGIN_FUZZY_CHECKPOINT_RECORD>>
    /\ log_record_type_to_count' =
         Incr(log_record_type_to_count, BEGIN_FUZZY_CHECKPOINT_RECORD)

StoredListKept ==
  (/\ ~AppendsType(BEGIN_FUZZY_CHECKPOINT_RECORD)
   /\ ~AppendsType(END_FUZZY_CHECKPOINT_RECORD)
   /\ lastOp'[1] # "crash")
  => fuzzy_checkpoint_page_ids' = fuzzy_checkpoint_page_ids

C13_FuzzyBeginSnapshotsDirtyPages ==
  [][FuzzyBeginStoresDirtyList /\ StoredListKept]_vars

\* reached: fuzzy_begin ran with no dirty page, and a page was dirtied by an
\* UPDATE after it while the stored list stayed empty
C13_Witness ==
  LET recs == KnownRecords IN
  /\ lastOp[1] = "run"
  /\ OpenFuzzyCheckpoint(recs)
  /\ recs[Len(recs)].type = UPDATE_RECORD
  /\ dirty # {}
  /\ fuzzy_checkpoint_page_ids = <<>>

(***************************************************************************)
(* C14: fuzzy_step(step) with step past the end of the stored list changes  *)
(* nothing; with step inside the list its only effect is the flush of page  *)
(* fuzzy_checkpoint_page_ids[step]; in both cases the log file, the offset,  *)
(* the counts, the map and the stored list are unchanged.                    *)
(***************************************************************************)
OnlyFlushes(page_id) ==
  /\ pages' = pages
  /\ dirty' = dirty \ {page_id}
  /\ disk' = [p \in Pages |->
                IF p = page_id /\ p \in dirty THEN pages[p] ELSE disk[p]]

FuzzyStepEffect(step) ==
  /\ UNCHANGED wal
  /\ IF step >= Len(fuzzy_checkpoint_page_ids)
       THEN UNCHANGED <<pages, disk, dirty>>
       ELSE OnlyFlushes(fuzzy_checkpoint_page_ids[step + 1])

C14_FuzzyStepOnlyFlushes ==
  [][\A step \in 0..NumPages : FuzzyStep(step) => FuzzyStepEffect(step)]_vars

\* reached: step 0 ran with a stored page, which is now clean and on disk with
\* the after-image of an UPDATE, and the checkpoint is still open
C14_Witness ==
  LET recs == KnownRecords IN
  /\ lastOp = <<"fuzzy_step", 0>>
  /\ fuzzy_checkpoint_page_ids # <<>>
  /\ OpenFuzzyCheckpoint(recs)
  /\ LET p == fuzzy_checkpoint_page_ids[1] IN
     /\ p \notin dirty
     /\ disk[p] = pages[p]
     /\ \E b \in 1..PageSize : disk[p][b] # 0

(***************************************************************************)
(* C15: in every reachable state a transaction id is a key of               *)
(* txn_id_to_first_log_record exactly when the log holds a BEGIN record of   *)
(* it and neither a COMMIT nor an ABORT record of it.                        *)
(***************************************************************************)
Unfinished(recs, t) ==
  /\ HasRecord(recs, BEGIN_RECORD, t)
  /\ ~HasRecord(recs, COMMIT_RECORD, t)
  /\ ~HasRecord(recs, ABORT_RECORD, t)

C15_MapHoldsUnfinishedTxns ==
  LET recs == KnownRecords IN
  \A t \in TxnIds : Live(t) <=> Unfinished(recs, t)

(***************************************************************************)
(* C16: for every transaction in txn_id_to_first_log_record the stored     *)
(* value is the number of records in the log before its BEGIN record, for   *)
(* the entries made by log_txn_begin and for those rebuilt by recovery.      *)
(***************************************************************************)
BeginsOf(recs, t) ==
  {i \in DOMAIN recs : recs[i].type = BEGIN_RECORD /\ recs[i].txn_id = t}

C16_MapHoldsRecordsBeforeBegin ==
  LET recs == KnownRecords IN
  \A t \in DOMAIN txn_id_to_first_log_record :
    /\ BeginsOf(recs, t) # {}
    /\ \A i \in BeginsOf(recs, t) : txn_id_to_first_log_record[t] = i - 1

\* reached: recovery rebuilt the entries of two transactions, the second of
\* which began after other records
C16_Witness ==
  /\ Recovered
  /\ Cardinality(DOMAIN txn_id_to_first_log_record) = 2
  /\ \E t \in DOMAIN txn_id_to_first_log_record :
       txn_id_to_first_log_record[t] > 1

(***************************************************************************)
(* C17: the log is append-only.  Over every sequence of WAL operations in   *)
(* which recovery follows reset before the next append, the bytes of the     *)
(* records written to the log file are neither overwritten nor truncated     *)
(* away, and no step writes below the current_offset_ it started from.       *)
(***************************************************************************)
RecordsKept ==
  /\ Len(log_file') >= Len(log_file)
  /\ SubSeq(log_file', 1, Len(log_file)) = log_file

WritesFromOffset ==
  \A i \in 1..current_offset_ :
    (i <= Len(log_file) /\ i <= Len(log_file')) => log_file'[i] = log_file[i]

AppendsRightAfterReset == lastOp[1] = "crash" /\ lastOp'[1] # "recovery"

C17_AppendOnlyWhenRecoveryFollowsReset ==
  [][(~AppendsRightAfterReset => RecordsKept) /\ WritesFromOffset]_vars

\* C17 as stated, over every sequence of WAL operations, reset followed by an
\* append included
C17_AppendOnly == [][RecordsKept /\ WritesFromOffset]_vars

\* reached: a transaction began before the crash and is unfinished, another
\* began after reset and recovery, and the log holds every record ever appended
C17_Witness ==
  LET recs == KnownRecords IN
  /\ crashes = 1
  /\ lastOp[1] = "run"
  /\ n_appends = Len(recs)
  /\ current_offset_ = Len(log_file)
  /\ \E t \in TxnIds : t \notin active_txns /\ Unfinished(recs, t)
  /\ \E t \in active_txns : HasRecord(recs, BEGIN_RECORD, t)

(***************************************************************************)
(* C18: fuzzy_checkpoint_page_ids is non-empty only while the log holds a   *)
(* BEGIN_FUZZY record with no END_FUZZY record after it; it is empty after   *)
(* fuzzy_end and after a recovery.                                           *)
(***************************************************************************)
C18_PendingPagesOnlyInOpenCheckpoint ==
  LET recs == KnownRecords IN
  /\ fuzzy_checkpoint_page_ids # <<>> => OpenFuzzyCheckpoint(recs)
  /\ (recs # <<>> /\ recs[Len(recs)].type = END_FUZZY_CHECKPOINT_RECORD)
       => fuzzy_checkpoint_page_ids = <<>>
  /\ Recovered => fuzzy_checkpoint_page_ids = <<>>

\* reached: fuzzy_begin stored a dirty page, fuzzy_end followed with no step
\* in between, and the list is empty while the page is still dirty
C18_Witness ==
  LET recs == KnownRecords IN
  /\ lastOp[1] = "run"
  /\ crashes = 0
  /\ Len(recs) >= 3
  /\ recs[Len(recs)].type = END_FUZZY_CHECKPOINT_RECORD
  /\ recs[Len(recs) - 1].type = BEGIN_FUZZY_CHECKPOINT_RECORD
  /\ recs[Len(recs) - 2].type = UPDATE_RECORD
  /\ dirty # {}
  /\ fuzzy_checkpoint_page_ids = <<>>

(***************************************************************************)
(* C19: when an UPDATE of transaction A is undone (by log_abort, or by      *)
(* recovery because A has an ABORT record or no COMMIT record) and a         *)
(* committed transaction B has a later UPDATE of the same byte, the byte     *)
(* holds B's after-image after the undo.  Stated for the bytes whose last    *)
(* UPDATE is B's and whose after-image is on disk at the crash, so that the  *)
(* redo of B's UPDATE is not what the statement depends on.                  *)
(***************************************************************************)
Undone(A) == lastOp = <<"abort", A>> \/ Recovered

C19_UndoKeepsLaterCommittedUpdate ==
  LET recs == Records IN
  \A A \in TxnIds : \A B \in TxnIds \ {A} :
    (Undone(A) /\ ~Committed(recs, A) /\ Committed(recs, B)) =>
      \A pb \in Bytes :
        LET c == Covering(recs, pb[1], pb[2])
            cA == CoveringOf(recs, A, pb[1], pb[2])
        IN (/\ cA # {}
            /\ recs[Last(c)].txn_id = B
            /\ (crashes = 0 \/ disk[pb[1]][pb[2]] = AfterByte(recs[Last(c)], pb[2])))
           => pages[pb[1]][pb[2]] = AfterByte(recs[Last(c)], pb[2])

(***************************************************************************)
(* C20: log_abort(t) appends the ABORT record and counts it, then runs      *)
(* rollback_txn(t) while t is still in txn_id_to_first_log_record, then      *)
(* erases t; after it returns for a live t the log ends with the ABORT       *)
(* record of t, t is not in the map and every UPDATE of t is undone.         *)
(***************************************************************************)
AbortRecordAppended(t) ==
  /\ Len(log_file') = current_offset_ + TxnRecordSize
  /\ SubSeq(log_file', 1, current_offset_) = SubSeq(log_file, 1, current_offset_)
  /\ ReadBlock(log_file', current_offset_, TxnRecordSize)
       = <<ABORT_RECORD>> \o U64Bytes(t)
  /\ current_offset_' = current_offset_ + TxnRecordSize
  /\ log_record_type_to_count' = Incr(log_record_type_to_count, ABORT_RECORD)

ErasedFromMap(t) ==
  txn_id_to_first_log_record' = MapErase(txn_id_to_first_log_record, t)

UpdatesUndone(t) ==
  LET recs == Records IN
  \A pb \in Bytes :
    LET ct == CoveringOf(recs, t, pb[1], pb[2]) IN
    ct # {} => pages'[pb[1]][pb[2]] = BeforeByte(recs[First(ct)], pb[2])

AfterRecovery == crashes > 0 /\ lastOp[1] # "crash"

C22_AppendsAfterTornRecoveryAreScanned ==
  AfterRecovery =>
    LET seen == ScanOf(SubSeq(log_file, 1, current_offset_)) IN
    /\ seen.counts = log_record_type_to_count
    /\ \A t \in DOMAIN txn_id_to_first_log_record : t \in DOMAIN seen.map

(***************************************************************************)
(* C23: when the log holds an END_FUZZY record the fuzzy checkpoint has     *)
(* completed: every UPDATE record that precedes the matching BEGIN_FUZZY     *)
(* record is on durable storage.  Stated for the histories without a crash,  *)
(* where no page content was lost.                                           *)
(***************************************************************************)
MatchingFuzzyBegin(recs, j) ==
  Last({i \in 1..(j - 1) : recs[i].type = BEGIN_FUZZY_CHECKPOINT_RECORD})

C23_UpdatesBeforeCompletedFuzzyCheckpointDurable ==
  LET recs == Records IN
  crashes = 0 =>
    \A j \in DOMAIN recs :
      (/\ recs[j].type = END_FUZZY_CHECKPOINT_RECORD
       /\ \E i \in 1..(j - 1) : recs[i].type = BEGIN_FUZZY_CHECKPOINT_RECORD)
      => \A u \in unflushed : u[1] > recs[MatchingFuzzyBegin(recs, j)].at

(***************************************************************************)
(* C24: when recovery completes, no transaction that has an ABORT record in *)
(* the log is a key of txn_id_to_first_log_record.                           *)
(***************************************************************************)
C24_RecoveryErasesAbortedTxns ==
  LET recs == Records IN
  Recovered =>
    \A t \in TxnIds : HasRecord(recs, ABORT_RECORD, t) => ~Live(t)

(***************************************************************************)
(* C25: rollback_txn(t) applies before-images only from the UPDATE records  *)
(* of t that lie after the BEGIN record registered for t in                  *)
(* txn_id_to_first_log_record: a byte that only UPDATEs with the id of t     *)
(* before that BEGIN wrote is left as it is, and a byte that an UPDATE of t  *)
(* after that BEGIN wrote gets the before-image of the first such UPDATE.    *)
(***************************************************************************)
RegisteredBegin(t) == txn_id_to_first_log_record[t] + 1

RollbackFromRegisteredBegin(t) ==
  LET recs == Records IN
  \A pb \in Bytes :
    LET ct == CoveringOf(recs, t, pb[1], pb[2])
        later == {i \in ct : i > RegisteredBegin(t)}
    IN /\ (ct # {} /\ later = {}) => pages'[pb[1]][pb[2]] = pages[pb[1]][pb[2]]
       /\ later # {} =>
            pages'[pb[1]][pb[2]] = BeforeByte(recs[First(later)], pb[2])

C25_RollbackStartsAtRegisteredBegin ==
  [][\A t \in TxnIds :
       (lastOp' \in {<<"rollback", t>>, <<"rollback_again", t>>} /\ Live(t))
       => RollbackFromRegisteredBegin(t)]_vars

(***************************************************************************)
(* C26: the rollback scan for t ends at the first ABORT record of t (or at  *)
(* a zero tag, or at current_offset_): the before-images rollback_txn(t)     *)
(* applies are exactly those of the UPDATE records of t before that ABORT    *)
(* record, and the ABORT record of another transaction does not end it.      *)
(***************************************************************************)
\* the index of the first ABORT record of t, or one past the last record
FirstAbortOf(recs, t) ==
  LET aborts == {i \in DOMAIN recs :
                   recs[i].type = ABORT_RECORD /\ recs[i].txn_id = t}
  IN IF aborts = {} THEN Len(recs) + 1 ELSE First(aborts)

UpdatesBeforeAbort(recs, t) ==
  LET before == SubSeq(recs, 1, FirstAbortOf(recs, t) - 1)
      own == SelectSeq(before,
               LAMBDA r : r.type = UPDATE_RECORD /\ r.txn_id = t)
  IN [k \in 1..Len(own) |-> UpdateInfo(log_file, own[k].at)]

\* (a rollback_txn step leaves the log as it is, so the states it leads to
\* hold no log that the state before it does not hold)
ScanEndsAtOwnAbort ==
  lastOp[1] \notin {"crash", "rollback", "rollback_again"} =>
    LET recs == KnownRecords IN
    \A t \in TxnIds :
      RollbackScan(log_file, current_offset_, t, 0, <<>>)
        = UpdatesBeforeAbort(recs, t)

RollbackAppliesUpdatesBeforeAbort(t) ==
  LET recs == KnownRecords IN
  \A pb \in Bytes :
    LET pre == {i \in CoveringOf(recs, t, pb[1], pb[2]) :
                  i < FirstAbortOf(recs, t)}
    IN pages'[pb[1]][pb[2]] =
         IF pre = {} THEN pages[pb[1]][pb[2]]
         ELSE BeforeByte(recs[First(pre)], pb[2])

C26_RollbackScanEndsAtOwnAbort ==
  /\ []ScanEndsAtOwnAbort
  /\ [][\A t \in TxnIds :
          (lastOp' \in {<<"rollback", t>>, <<"rollback_again", t>>} /\ Live(t))
          => RollbackAppliesUpdatesBeforeAbort(t)]_vars

\* reached: rollback_txn(t) undid an UPDATE of t that follows the ABORT record
\* of another transaction
C26_Witness ==
  LET recs == KnownRecords IN
  \E t \in TxnIds : \E pb \in Bytes :
    LET ct == CoveringOf(recs, t, pb[1], pb[2]) IN
    /\ lastOp = <<"rollback", t>>
    /\ Live(t)
    /\ ct # {}
    /\ \E i \in DOMAIN recs :
         /\ recs[i].type = ABORT_RECORD
         /\ recs[i].txn_id # t
         /\ i < First(ct)
    /\ pages[pb[1]][pb[2]] = BeforeByte(recs[First(ct)], pb[2])
    /\ pages[pb[1]][pb[2]] # AfterByte(recs[Last(ct)], pb[2])

(***************************************************************************)
(* C27: recovery re-applies after-images only for the UPDATE records of the *)
(* final redo set whose transaction has an ABORT record in the log; it never *)
(* writes the after-image of an UPDATE of a committed transaction or of one  *)
(* with neither COMMIT nor ABORT.  Stated for the redo loop of the recovery  *)
(* that follows a crash: each byte holds the after-image of the last UPDATE  *)
(* of the set that covers it and belongs to an aborted transaction, and is   *)
(* untouched when there is none.                                             *)
(***************************************************************************)
Crashed == lastOp[1] = "crash"

\* the final redo set of a recovery on the present file, and the pool that
\* its redo loop leaves
RedoSet == FinalUpdates(ScanOf(log_file))
Redone ==
  RedoAborted([pages |-> pages, dirty |-> dirty], RedoSet,
              ScanOf(log_file).aborted_txns, 1)

CoversByte(u, p, b) ==
  u.page_id = p /\ u.offset < b /\ b <= u.offset + u.length

InRedoSet(rec) ==
  \E k \in DOMAIN RedoSet : RedoSet[k] = UpdateInfo(log_file, rec.at)

C28_CheckpointEmptiesRedoSet ==
  Crashed =>
    LET recs == Records IN
    \A k \in DOMAIN recs : \A c \in DOMAIN recs :
      (/\ recs[k].type = UPDATE_RECORD
       /\ recs[c].type = CHECKPOINT_RECORD
       /\ k < c)
      => ~InRedoSet(recs[k])

\* reached: at the crash the log holds an UPDATE, a BEGIN_FUZZY with no
\* END_FUZZY, a CHECKPOINT and a second UPDATE, which alone is in the redo set
C28_Witness ==
  LET recs == Records IN
  /\ Crashed
  /\ ~HasType(recs, END_FUZZY_CHECKPOINT_RECORD)
  /\ \E k, f, c, l \in DOMAIN recs :
       /\ k < f /\ f < c /\ c < l
       /\ recs[k].type = UPDATE_RECORD
       /\ recs[f].type = BEGIN_FUZZY_CHECKPOINT_RECORD
       /\ recs[c].type = CHECKPOINT_RECORD
       /\ recs[l].type = UPDATE_RECORD
       /\ ~InRedoSet(recs[k])
       /\ InRedoSet(recs[l])

(***************************************************************************)
(* C29: during recovery, when a BEGIN_FUZZY record is followed later in the *)
(* log by an END_FUZZY record, no UPDATE record before that BEGIN_FUZZY is   *)
(* in the final redo set, while the UPDATE records after the BEGIN_FUZZY     *)
(* (before and after the END_FUZZY) are in it, unless a later CHECKPOINT or  *)
(* a later completed fuzzy checkpoint removes them.                          *)
(***************************************************************************)
FuzzyPairs(recs) ==
  {p \in (DOMAIN recs) \X (DOMAIN recs) :
     /\ p[1] < p[2]
     /\ recs[p[1]].type = BEGIN_FUZZY_CHECKPOINT_RECORD
     /\ recs[p[2]].type = END_FUZZY_CHECKPOINT_RECORD}

RemovedLater(recs, k) ==
  \/ \E c \in DOMAIN recs : c > k /\ recs[c].type = CHECKPOINT_RECORD
  \/ \E p \in FuzzyPairs(recs) : p[1] > k

C29_CompletedFuzzyCheckpointBoundsRedoSet ==
  Crashed =>
    LET recs == Records IN
    \A p \in FuzzyPairs(recs) :
      \A k \in DOMAIN recs :
        recs[k].type = UPDATE_RECORD =>
          /\ k < p[1] => ~InRedoSet(recs[k])
          /\ (k > p[1] /\ ~RemovedLater(recs, k)) => InRedoSet(recs[k])

\* reached: at the crash the log holds an UPDATE, BEGIN_FUZZY, a second
\* UPDATE and END_FUZZY; the second UPDATE is in the redo set, the first not
C29_Witness ==
  LET recs == Records IN
  /\ Crashed
  /\ \E k, f, l, e \in DOMAIN recs :
       /\ k < f /\ f < l /\ l < e
       /\ recs[k].type = UPDATE_RECORD
       /\ recs[f].type = BEGIN_FUZZY_CHECKPOINT_RECORD
       /\ recs[l].type = UPDATE_RECORD
       /\ recs[e].type = END_FUZZY_CHECKPOINT_RECORD
       /\ ~InRedoSet(recs[k])
       /\ InRedoSet(recs[l])

(***************************************************************************)
(* C30: when the log ends with a BEGIN_FUZZY that has no later END_FUZZY    *)
(* (and no later CHECKPOINT), the final redo set of recovery is, in log      *)
(* order, the UPDATE records since the last CHECKPOINT or completed fuzzy    *)
(* checkpoint before that BEGIN_FUZZY, followed by the UPDATE records after  *)
(* it; otherwise it is the UPDATE records since the last checkpoint.         *)
(***************************************************************************)
Max(S) == IF S = {} THEN 0 ELSE Last(S)

IndicesOfType(recs, type) == {i \in DOMAIN recs : recs[i].type = type}

\* the index after which the UPDATE records are to be considered for redo
RedoSetStart(recs) ==
  LET begins == IndicesOfType(recs, BEGIN_FUZZY_CHECKPOINT_RECORD)
      ends == IndicesOfType(recs, END_FUZZY_CHECKPOINT_RECORD)
      sharp == IndicesOfType(recs, CHECKPOINT_RECORD)
      lastBegin == Max(begins)
      unpaired == /\ begins # {}
                  /\ \A i \in ends \cup sharp : i < lastBegin
      completed == {i \in begins : \E j \in ends : i < j}
  IN IF unpaired
       THEN Max({i \in sharp \cup completed : i < lastBegin})
       ELSE Max(sharp \cup begins)

ExpectedRedoSet(recs) ==
  LET start == RedoSetStart(recs)
      own == SelectSeq(SubSeq(recs, start + 1, Len(recs)),
               LAMBDA r : r.type = UPDATE_RECORD)
  IN [k \in 1..Len(own) |-> UpdateInfo(log_file, own[k].at)]

C30_RedoSetAfterUnfinishedFuzzyCheckpoint ==
  Crashed => RedoSet = ExpectedRedoSet(Records)

(***************************************************************************)
(* C31: at a BEGIN_FUZZY record recovery adds the UPDATEs collected since   *)
(* the last checkpoint to the pending buffer without discarding what the     *)
(* buffer holds: with two BEGIN_FUZZY records and no END_FUZZY or CHECKPOINT *)
(* between them (nor after them), an UPDATE from before the first            *)
(* BEGIN_FUZZY that no checkpoint in front of it has removed is in the final *)
(* redo set.                                                                 *)
(***************************************************************************)
\* two BEGIN_FUZZY records f1 < f2 with no END_FUZZY and no CHECKPOINT after f1
UnfinishedFuzzyPair(recs, f1, f2) ==
  /\ f1 < f2
  /\ recs[f1].type = BEGIN_FUZZY_CHECKPOINT_RECORD
  /\ recs[f2].type = BEGIN_FUZZY_CHECKPOINT_RECORD
  /\ \A i \in DOMAIN recs :
       i > f1 => recs[i].type \notin {END_FUZZY_CHECKPOINT_RECORD,
                                      CHECKPOINT_RECORD}

C31_SecondFuzzyBeginKeepsPendingUpdates ==
  Crashed =>
    LET recs == Records IN
    \A f1, f2 \in DOMAIN recs :
      UnfinishedFuzzyPair(recs, f1, f2) =>
        \A k \in DOMAIN recs :
          (/\ recs[k].type = UPDATE_RECORD
           /\ k < f1
           /\ ~RemovedLater(recs, k))
          => InRedoSet(recs[k])

(***************************************************************************)
(* C32: every append advances current_offset_ by exactly the encoded size   *)
(* of its record (9 bytes for BEGIN, COMMIT and ABORT; 33 + 2*length for     *)
(* UPDATE; 1 for CHECKPOINT, BEGIN_FUZZY and END_FUZZY); current_offset_     *)
(* never decreases between resets and equals the log file size after every   *)
(* append and after recovery.  It is the sum of the encoded sizes of the     *)
(* records appended since the last reset or recovery, on top of what that    *)
(* reset (0) or recovery (the log file size) set it to.                      *)
(***************************************************************************)
\* the encoded size of the record that starts at off, by its tag
EncodedSize(file, off) ==
  LET type == ReadByte(file, off) IN
  IF type \in {BEGIN_RECORD, COMMIT_RECORD, ABORT_RECORD} THEN 9
  ELSE IF type = UPDATE_RECORD
    THEN 33 + 2 * ReadU64(file, off + 17)
  ELSE IF type \in {CHECKPOINT_RECORD, BEGIN_FUZZY_CHECKPOINT_RECORD,
                    END_FUZZY_CHECKPOINT_RECORD} THEN 1
  ELSE 0

AppendStep == n_appends' = n_appends + 1 /\ lastOp'[1] # "crash"
ResetStep == lastOp'[1] = "crash"
RecoveryStep == lastOp'[1] = "recovery"

\* what an append does to current_offset_, and what holds of every step
AppendAdvancesBySize ==
  AppendStep =>
    /\ EncodedSize(log_file', current_offset_) > 0
    /\ current_offset_' = current_offset_ + EncodedSize(log_file', current_offset_)
    /\ current_offset_' = Len(log_file')

OffsetNeverDecreases == ~ResetStep => current_offset_' >= current_offset_

C32_OffsetIsSumSinceResetOrRecovery ==
  [][/\ AppendAdvancesBySize
     /\ OffsetNeverDecreases
     /\ ResetStep => current_offset_' = 0
     /\ RecoveryStep => current_offset_' = Len(log_file')
     /\ (~AppendStep /\ ~ResetStep /\ ~RecoveryStep)
          => current_offset_' = current_offset_]_vars

\* the statement with the sum taken since the last reset alone: recovery, which
\* writes no record, would leave current_offset_ as reset set it
C32_OffsetIsSumSinceReset ==
  [][/\ AppendAdvancesBySize
     /\ OffsetNeverDecreases
     /\ ResetStep => current_offset_' = 0
     /\ (~AppendStep /\ ~ResetStep) => current_offset_' = current_offset_]_vars

\* the offset behind the last record a scan of the file decodes
EndOfRecords(recs) ==
  IF recs = <<>> THEN 0
  ELSE recs[Len(recs)].at + EncodedSize(log_file, recs[Len(recs)].at)

\* reached: an append was interrupted by a crash, recovery ran and a record
\* was appended; current_offset_ is the file size and exceeds the sizes of
\* the records a scan decodes
C32_Witness ==
  /\ crashes > 0
  /\ Running
  /\ torn_off = -1
  /\ Records # <<>>
  /\ EndOfRecords(Records) < Len(log_file)
  /\ current_offset_ = Len(log_file)

(***************************************************************************)
(* C33: recovery tolerates a COMMIT record for a transaction whose BEGIN    *)
(* was never seen: it completes, the COMMIT is counted, the transaction is   *)
(* not in txn_id_to_first_log_record afterwards, and pages and registered    *)
(* transactions are those of a recovery on the same log without that record. *)
(***************************************************************************)
\* the COMMIT records with no BEGIN record of their transaction in front
UnknownCommits(recs) ==
  {c \in DOMAIN recs :
     /\ recs[c].type = COMMIT_RECORD
     /\ ~\E b \in DOMAIN recs :
          b < c /\ recs[b].type = BEGIN_RECORD /\ recs[b].txn_id = recs[c].txn_id}

NeverBegun(recs, t) == ~HasRecord(recs, BEGIN_RECORD, t)

\* the file without the size bytes at offset at
WithoutRecord(file, at, size) ==
  SubSeq(file, 1, at) \o SubSeq(file, at + size + 1, Len(file))

UnknownCommitIgnored(recs, c) ==
  LET with == recovery(log_file, txn_id_to_first_log_record, Pool)
      without == recovery(WithoutRecord(log_file, recs[c].at, TxnRecordSize),
                          txn_id_to_first_log_record, Pool)
  IN /\ with.pool = without.pool
     /\ DOMAIN with.map = DOMAIN without.map
     /\ with.counts = Incr(without.counts, COMMIT_RECORD)
     /\ NeverBegun(recs, recs[c].txn_id) => recs[c].txn_id \notin DOMAIN with.map

C33_CommitWithoutBeginTolerated ==
  LET recs == Records IN
  /\ Crashed => \A c \in UnknownCommits(recs) : UnknownCommitIgnored(recs, c)
  /\ lastOp[1] = "recovery" =>
       /\ log_record_type_to_count[COMMIT_RECORD] =
            Cardinality(IndicesOfType(recs, COMMIT_RECORD))
       /\ \A c \in UnknownCommits(recs) :
            NeverBegun(recs, recs[c].txn_id)
              => recs[c].txn_id \notin DOMAIN txn_id_to_first_log_record

\* reached: recovery has run on a log that holds a COMMIT record of a
\* transaction with no BEGIN record and an UPDATE of an unfinished transaction
C33_Witness ==
  LET recs == Records IN
  /\ lastOp[1] = "recovery"
  /\ \E c \in UnknownCommits(recs) :
       /\ NeverBegun(recs, recs[c].txn_id)
       /\ recs[c].txn_id \notin DOMAIN txn_id_to_first_log_record
  /\ log_record_type_to_count[COMMIT_RECORD] >= 1
  /\ \E k \in DOMAIN recs :
       /\ recs[k].type = UPDATE_RECORD
       /\ recs[k].txn_id \in DOMAIN txn_id_to_first_log_record

(***************************************************************************)
(* C34: rollback_txn changes only the page contents of the buffer pool and  *)
(* their dirty flags: it appends no record and leaves the log file bytes,    *)
(* current_offset_, every kind count, txn_id_to_first_log_record and         *)
(* fuzzy_checkpoint_page_ids unchanged (the pages on disk and the            *)
(* transaction manager too); recovery never writes to the log file.          *)
(***************************************************************************)
RollbackStep == lastOp'[1] \in {"rollback", "rollback_again"}

C34_RollbackAndRecoveryFrame ==
  [][/\ RollbackStep =>
          /\ log_file' = log_file
          /\ current_offset_' = current_offset_
          /\ log_record_type_to_count' = log_record_type_to_count
          /\ txn_id_to_first_log_record' = txn_id_to_first_log_record
          /\ fuzzy_checkpoint_page_ids' = fuzzy_checkpoint_page_ids
          /\ disk' = disk
          /\ txnmgr' = txnmgr
     /\ RecoveryStep => log_file' = log_file]_vars

\* reached: rollback_txn has undone a byte of a registered transaction while
\* a fuzzy checkpoint has pages pending; the log and the registration are there
C34_Witness ==
  LET recs == Records IN
  \E t \in TxnIds : \E pb \in Bytes :
    /\ lastOp = <<"rollback", t>>
    /\ t \in DOMAIN txn_id_to_first_log_record
    /\ fuzzy_checkpoint_page_ids # <<>>
    /\ CoveringOf(recs, t, pb[1], pb[2]) # {}
    /\ pages[pb[1]][pb[2]] = BeforeByte(recs[First(CoveringOf(recs, t, pb[1], pb[2]))], pb[2])
    /\ pages[pb[1]][pb[2]] # AfterByte(recs[Last(CoveringOf(recs, t, pb[1], pb[2]))], pb[2])
    /\ current_offset_ = Len(log_file)
    /\ log_record_type_to_count[UPDATE_RECORD] > 0

(***************************************************************************)
(* C35: recovery is idempotent: reset and recovery run twice in a row on    *)
(* the same log file, with or without discarding the buffer pool in between  *)
(* and with no append in between, leave the same visible page contents, the  *)
(* same kind counts and the same txn_id_to_first_log_record as one run.      *)
(* Stated for the state right after a recovery, the first or the second:     *)
(* it is what one recovery on the log file makes of the pages on disk.       *)
(***************************************************************************)
RecoveredOnce == recovery(log_file, EmptyMap, [pages |-> disk, dirty |-> {}])

C35_RecoveryIdempotent ==
  lastOp[1] = "recovery" =>
    LET once == RecoveredOnce
    IN /\ pages = once.pool.pages
       /\ log_record_type_to_count = once.counts
       /\ txn_id_to_first_log_record = once.map

\* reached: recovery has run a second time, on a log with an UPDATE whose
\* after-image is on disk and was undone in the pool
C35_Witness ==
  LET recs == Records IN
  /\ lastOp[1] = "recovery"
  /\ crashes > MaxCrashes
  /\ \E k \in DOMAIN recs : \E b \in 1..PageSize :
       /\ recs[k].type = UPDATE_RECORD
       /\ recs[k].offset < b /\ b <= recs[k].offset + recs[k].length
       /\ disk[recs[k].page_id][b] = AfterByte(recs[k], b)
       /\ pages[recs[k].page_id][b] # disk[recs[k].page_id][b]
  /\ txn_id_to_first_log_record # EmptyMap

====
